---- MODULE Spec2Model ----
(***************************************************************************)
(* Authentication and credential-lifecycle core of the academic records    *)
(* portal backend: login, logout, session read, change-password,           *)
(* forgot-password (OTP issuance), verify-otp (password reset), the two    *)
(* express-rate-limit throttles in front of them, and the password         *)
(* generator.  Every route handler is split at its awaits on the data      *)
(* store or the notifier: one action per store call, so that concurrent    *)
(* requests interleave exactly where the Node.js event loop lets them.     *)
(*                                                                         *)
(* Time is counted in minutes.  A slot is one client connection: it holds  *)
(* the request that client has in flight, or its last request together     *)
(* with the response it received.                                          *)
(***************************************************************************)
EXTENDS Integers, Sequences, FiniteSets, Bags, TLC

VARIABLES
  db,             \* the admins / teachers / students tables: table -> (row id -> row)
  otp_tokens,     \* the otp_tokens table, in insertion (created_at) order; id = position
  activity_logs,  \* the activity_logs table, a bag of rows
  sent,           \* OTP e-mails the notifier has delivered, a bag of recipients
  sessions,       \* req.session.user of each client, NoSession when unset
  otpHits,        \* store of otpRequestLimiter: key -> [hits, resetTime]
  loginHits,      \* store of loginLimiter: key -> [hits, resetTime]
  req,            \* per slot: the request being handled (locals of the handler) and its response
  now,            \* Date.now(), in minutes
  nreq,           \* number of requests received so far
  gen,            \* the secret generator: the call in progress and its locals
  generated       \* student_id of the students rows inserted by POST /students/generate

vars == <<db, otp_tokens, activity_logs, sent, sessions, otpHits, loginHits, req, now, nreq, gen,
          generated>>

-----------------------------------------------------------------------------
(* Bounds of the model *)

MaxRequests == 3        \* requests received in one behaviour
MaxTime == 10           \* the clock stops advancing once it has reached MaxTime
TickStep == 5           \* minutes by which one Tick advances the clock
MaxLength == 9          \* longest password asked of generatePassword

Slots == {1, 2}

-----------------------------------------------------------------------------
(* Program constants (minutes) *)

OtpTtl == 10            \* 10 * 60 * 1000 ms
OtpWindow == 60         \* windowMs of otpRequestLimiter
OtpMax == 5             \* max of otpRequestLimiter
LoginWindow == 15       \* windowMs of loginLimiter
LoginMax == 10          \* max of loginLimiter
MinPasswordLen == 8

-----------------------------------------------------------------------------
(* Credential hasher.  A digest is not the secret: it is a value that only *)
(* comparePassword can relate to the secret it was made from.              *)

hashPassword(password) == [bcrypt |-> password]

comparePassword(password, hash) == hash.bcrypt = password

(* The codes generateOTP can return: six-digit decimal strings. *)
generateOTP == {"100000", "999999"}

-----------------------------------------------------------------------------
(* Tables *)

Origins == {"10.0.0.1", "10.0.0.2"}

TableOf(role) ==
  IF role = "admin" THEN "admins" ELSE IF role = "teacher" THEN "teachers" ELSE "students"

(* The seeded admin, teacher and student.  The student's must_change_password
   is the value a teacher-provisioned account starts with. *)
InitialDb ==
  [admins   |-> [i \in {"a1"} |-> [id |-> "a1", ident |-> "admin", email |-> "a1@portal",
                                   password_hash |-> hashPassword("Admin@123"),
                                   must_change_password |-> FALSE]],
   teachers |-> [i \in {"t1"} |-> [id |-> "t1", ident |-> "T10001", email |-> "t1@portal",
                                   password_hash |-> hashPassword("Teacher@123"),
                                   must_change_password |-> FALSE]],
   students |-> [i \in {"s1"} |-> [id |-> "s1", ident |-> "2024001", email |-> "s1@portal",
                                   password_hash |-> hashPassword("Student@123"),
                                   must_change_password |-> TRUE]]]

(* .from(table).select(...).eq(idField, identifier).maybeSingle(): the id of the
   one matching row, "" (null) when no row, or more than one, matches. *)
maybeSingle(table, identifier) ==
  LET hit == {i \in DOMAIN db[table] : db[table][i].ident = identifier}
  IN IF Cardinality(hit) = 1 THEN CHOOSE i \in hit : TRUE ELSE ""

TokenIds == 1..Len(otp_tokens)

(* .update({ used: true }).eq('user_id', id).eq('user_type', role).eq('used', false) *)
InvalidateTokens(role, id) ==
  [t \in TokenIds |->
     IF otp_tokens[t].user_id = id /\ otp_tokens[t].user_type = role /\ ~otp_tokens[t].used
     THEN [otp_tokens[t] EXCEPT !.used = TRUE]
     ELSE otp_tokens[t]]

(* .update({ used: true }).eq('id', tokenId) *)
MarkTokenUsed(tokenId) ==
  [otp_tokens EXCEPT ![tokenId].used = TRUE]

(* Mutant of LiveTokens: the query without its expires_at filter. *)
LiveTokens_NoExpiry(role, id, at) ==
  {t \in TokenIds : /\ otp_tokens[t].user_type = role
                    /\ otp_tokens[t].user_id = id
                    /\ ~otp_tokens[t].used}

(* .eq('user_type', role).eq('user_id', id).eq('used', false).gt('expires_at', at) *)
LiveTokens(role, id, at) ==
  {t \in TokenIds : /\ otp_tokens[t].user_type = role
                    /\ otp_tokens[t].user_id = id
                    /\ ~otp_tokens[t].used
                    /\ otp_tokens[t].expires_at > at}

(* Mutant of FirstValidToken: the tokens are tried oldest first. *)
FirstValidToken_Oldest(live, otp) ==
  LET ok == {t \in live : comparePassword(otp, otp_tokens[t].otp_code_hash)}
  IN IF ok = {} THEN 0 ELSE CHOOSE t \in ok : \A u \in ok : t <= u

(* The for-loop over otpTokens ordered by created_at descending: the first
   (most recently created) live token whose hash the code verifies, 0 if none. *)
FirstValidToken(live, otp) ==
  LET ok == {t \in live : comparePassword(otp, otp_tokens[t].otp_code_hash)}
  IN IF ok = {} THEN 0 ELSE CHOOSE t \in ok : \A u \in ok : u <= t

(* logActivity: one row appended to activity_logs. *)
logActivity(userType, userId, action) ==
  activity_logs (+) SetToBag({[user_type |-> userType, user_id |-> userId, action |-> action]})

-----------------------------------------------------------------------------
(* Rate limiter (express-rate-limit, fixed window per key) *)

LimiterKeys == Origins \cup {"admin", "T10001", "2024001", "nobody"}

NoHits == [hits |-> 0, resetTime |-> 0]

(* One request counted under key: a new window starts when the key has no
   running window, otherwise the running window's count goes up. *)
Hit(store, key, windowLen) ==
  IF store[key].hits = 0 \/ now >= store[key].resetTime
  THEN [store EXCEPT ![key] = [hits |-> 1, resetTime |-> now + windowLen]]
  ELSE [store EXCEPT ![key].hits = @ + 1]

(* Mutant of OtpKey: the limiter's default key, the network origin. *)
OtpKey_ByOrigin(ip, identifier) == ip

(* keyGenerator of otpRequestLimiter *)
OtpKey(ip, identifier) == IF identifier # "" THEN identifier ELSE ip

(* Mutant of LoginLimited: the quota is one too large. *)
LoginLimited_OffByOne(store, ip) == store[ip].hits > LoginMax + 1

(* loginLimiter rejects: the request just counted exceeds max. *)
LoginLimited(store, ip) == store[ip].hits > LoginMax

(* otpRequestLimiter rejects: the request just counted exceeds max. *)
OtpLimited(store, key) == store[key].hits > OtpMax

-----------------------------------------------------------------------------
(* Requests *)

NoResp == [status |-> 0, text |-> ""]

Resp(status, text) == [status |-> status, text |-> text]

NoSession == [id |-> "", role |-> "", username |-> "", mustChangePassword |-> FALSE]

(* No call of the secret generator in progress. *)
GenIdle == [pc |-> "idle", args |-> <<>>, length |-> 0, password |-> <<>>]

Idle ==
  [kind |-> "none", pc |-> "idle", ip |-> "", role |-> "", identifier |-> "",
   password |-> "", otp |-> "", newPassword |-> "", user |-> "",
   queryTime |-> 0, validToken |-> 0, otpCode |-> "", inserted |-> 0, resp |-> NoResp,
   storeError |-> FALSE, body |-> NoSession,
   startNum |-> 0, endNum |-> 0, students |-> {}]

Free(r) == req[r].pc \in {"idle", "done"}

Reply(r, status, text) ==
  [req EXCEPT ![r].pc = "done", ![r].resp = Resp(status, text), ![r].otpCode = ""]

Goto(r, pc) == [req EXCEPT ![r].pc = pc]

Init ==
  /\ db = InitialDb
  /\ otp_tokens = <<>>
  /\ activity_logs = EmptyBag
  /\ sent = EmptyBag
  /\ sessions = [r \in Slots |-> NoSession]
  /\ otpHits = [k \in LimiterKeys |-> NoHits]
  /\ loginHits = [k \in LimiterKeys |-> NoHits]
  /\ req = [r \in Slots |-> Idle]
  /\ now = 0
  /\ nreq = 0
  /\ gen = GenIdle
  /\ generated = {}

(* The clock advances by step, as long as it has not reached until. *)
Tick(step, until) ==
  /\ now < until
  /\ now' = now + step
  /\ UNCHANGED <<gen, generated, db, otp_tokens, activity_logs, sent, sessions, otpHits, loginHits, req, nreq>>

-----------------------------------------------------------------------------
(* POST /forgot-password *)

(* Mutant of StartForgot: the roles login accepts are accepted here too. *)
StartForgot_AllowAdmin(r, ip, role, identifier) ==
  /\ Free(r)
  /\ nreq' = nreq + 1
  /\ otpHits' = Hit(otpHits, OtpKey(ip, identifier), OtpWindow)
  /\ LET q == [Idle EXCEPT !.kind = "forgot", !.ip = ip, !.role = role,
                           !.identifier = identifier]
     IN req' = [req EXCEPT ![r] =
          IF OtpLimited(otpHits', OtpKey(ip, identifier))
            THEN [q EXCEPT !.pc = "done",
                           !.resp = Resp(429, "Too many OTP requests. Please try again after an hour.")]
          ELSE IF role = "" \/ identifier = ""
            THEN [q EXCEPT !.pc = "done", !.resp = Resp(400, "Role and identifier are required")]
          ELSE IF role \notin {"admin", "teacher", "student"}
            THEN [q EXCEPT !.pc = "done", !.resp = Resp(400, "Invalid role")]
          ELSE [q EXCEPT !.pc = "lookup"]]
  /\ UNCHANGED <<gen, generated, db, otp_tokens, activity_logs, sent, sessions, loginHits, now>>

(* otpRequestLimiter, then the handler up to its first await. *)
StartForgot(r, ip, role, identifier) ==
  /\ Free(r)
  /\ nreq' = nreq + 1
  /\ otpHits' = Hit(otpHits, OtpKey(ip, identifier), OtpWindow)
  /\ LET q == [Idle EXCEPT !.kind = "forgot", !.ip = ip, !.role = role,
                           !.identifier = identifier]
     IN req' = [req EXCEPT ![r] =
          IF OtpLimited(otpHits', OtpKey(ip, identifier))
            THEN [q EXCEPT !.pc = "done",
                           !.resp = Resp(429, "Too many OTP requests. Please try again after an hour.")]
          ELSE IF role = "" \/ identifier = ""
            THEN [q EXCEPT !.pc = "done", !.resp = Resp(400, "Role and identifier are required")]
          ELSE IF role = "admin"
            THEN [q EXCEPT !.pc = "done",
                           !.resp = Resp(400, "Password reset not available for admin accounts")]
          ELSE IF role \notin {"teacher", "student"}
            THEN [q EXCEPT !.pc = "done", !.resp = Resp(400, "Invalid role")]
          ELSE [q EXCEPT !.pc = "lookup"]]
  /\ UNCHANGED <<gen, generated, db, otp_tokens, activity_logs, sent, sessions, loginHits, now>>

(* Mutant of ForgotLookup: a request that named no principal is logged. *)
ForgotLookup_LogsUnknown(r) ==
  /\ req[r].kind = "forgot" /\ req[r].pc = "lookup"
  /\ LET user == maybeSingle(TableOf(req[r].role), req[r].identifier)
     IN IF user = ""
        THEN /\ req' = Reply(r, 200, "If the account exists, an OTP has been sent to the registered email")
             /\ activity_logs' = logActivity(req[r].role, "", "otp_requested")
        ELSE /\ req' = [req EXCEPT ![r].pc = "invalidate", ![r].user = user]
             /\ activity_logs' = activity_logs
  /\ UNCHANGED <<gen, generated, db, otp_tokens, sent, sessions, otpHits, loginHits, now, nreq>>

(* The principal lookup; the generic answer when there is none. *)
ForgotLookup(r) ==
  /\ req[r].kind = "forgot" /\ req[r].pc = "lookup"
  /\ LET user == maybeSingle(TableOf(req[r].role), req[r].identifier)
     IN req' = IF user = ""
               THEN Reply(r, 200, "If the account exists, an OTP has been sent to the registered email")
               ELSE [req EXCEPT ![r].pc = "invalidate", ![r].user = user]
  /\ UNCHANGED <<gen, generated, db, otp_tokens, activity_logs, sent, sessions, otpHits, loginHits, now, nreq>>

(* Mutant of ForgotInvalidate: a new token is issued without invalidating the
   earlier ones. *)
ForgotInvalidate_Skip(r) ==
  /\ req[r].kind = "forgot" /\ req[r].pc = "invalidate"
  /\ req' = Goto(r, "insert")
  /\ UNCHANGED <<gen, generated, db, otp_tokens, activity_logs, sent, sessions, otpHits, loginHits, now, nreq>>

(* The principal's unused tokens are marked used. *)
ForgotInvalidate(r) ==
  /\ req[r].kind = "forgot" /\ req[r].pc = "invalidate"
  /\ otp_tokens' = InvalidateTokens(req[r].role, req[r].user)
  /\ req' = Goto(r, "insert")
  /\ UNCHANGED <<gen, generated, db, activity_logs, sent, sessions, otpHits, loginHits, now, nreq>>

(* generateOTP (a draw among codes), hashPassword, and the insert of the new
   token. *)
ForgotInsert(r, codes) ==
  /\ req[r].kind = "forgot" /\ req[r].pc = "insert"
  /\ \E otp \in codes :
       /\ otp_tokens' = Append(otp_tokens,
            [id |-> Len(otp_tokens) + 1, user_type |-> req[r].role, user_id |-> req[r].user,
             otp_code_hash |-> hashPassword(otp), expires_at |-> now + OtpTtl,
             used |-> FALSE, created_at |-> now])
       /\ req' = [req EXCEPT ![r].pc = "send", ![r].otpCode = otp,
                             ![r].inserted = Len(otp_tokens) + 1]
  /\ UNCHANGED <<gen, generated, db, activity_logs, sent, sessions, otpHits, loginHits, now, nreq>>

(* sendOTPEmail: the notifier delivers the code, or throws. *)
ForgotSend(r) ==
  /\ req[r].kind = "forgot" /\ req[r].pc = "send"
  /\ \/ /\ sent' = sent (+) SetToBag({db[TableOf(req[r].role)][req[r].user].email})
        /\ req' = Goto(r, "log")
     \/ /\ sent' = sent
        /\ req' = Goto(r, "rollback")
  /\ UNCHANGED <<gen, generated, db, otp_tokens, activity_logs, sessions, otpHits, loginHits, now, nreq>>

(* Mutant of ForgotLog: the rollback update runs on the success path too. *)
ForgotLog_Invalidates(r) ==
  /\ req[r].kind = "forgot" /\ req[r].pc = "log"
  /\ activity_logs' = logActivity(req[r].role, req[r].user, "otp_requested")
  /\ otp_tokens' = InvalidateTokens(req[r].role, req[r].user)
  /\ req' = Reply(r, 200, "OTP has been sent to your registered email address")
  /\ UNCHANGED <<gen, generated, db, sent, sessions, otpHits, loginHits, now, nreq>>

(* After delivery: the otp_requested entry and the answer. *)
ForgotLog(r) ==
  /\ req[r].kind = "forgot" /\ req[r].pc = "log"
  /\ activity_logs' = logActivity(req[r].role, req[r].user, "otp_requested")
  /\ req' = Reply(r, 200, "OTP has been sent to your registered email address")
  /\ UNCHANGED <<gen, generated, db, otp_tokens, sent, sessions, otpHits, loginHits, now, nreq>>

(* Mutant of ForgotRollback: the 503 answer without the rollback update. *)
ForgotRollback_NoInvalidate(r) ==
  /\ req[r].kind = "forgot" /\ req[r].pc = "rollback"
  /\ req' = Reply(r, 503, "Failed to send OTP email. Please contact your administrator.")
  /\ UNCHANGED <<gen, generated, db, otp_tokens, activity_logs, sent, sessions, otpHits, loginHits, now, nreq>>

(* Mutant of ForgotRollback: the rollback deletes the token it inserted. *)
ForgotRollback_Deletes(r) ==
  /\ req[r].kind = "forgot" /\ req[r].pc = "rollback"
  /\ otp_tokens' = SubSeq(otp_tokens, 1, req[r].inserted - 1)
                     \o SubSeq(otp_tokens, req[r].inserted + 1, Len(otp_tokens))
  /\ req' = Reply(r, 503, "Failed to send OTP email. Please contact your administrator.")
  /\ UNCHANGED <<gen, generated, db, activity_logs, sent, sessions, otpHits, loginHits, now, nreq>>

(* After a failed delivery: the principal's unused tokens are marked used. *)
ForgotRollback(r) ==
  /\ req[r].kind = "forgot" /\ req[r].pc = "rollback"
  /\ otp_tokens' = InvalidateTokens(req[r].role, req[r].user)
  /\ req' = Reply(r, 503, "Failed to send OTP email. Please contact your administrator.")
  /\ UNCHANGED <<gen, generated, db, activity_logs, sent, sessions, otpHits, loginHits, now, nreq>>

-----------------------------------------------------------------------------
(* POST /verify-otp *)

(* Mutant of StartVerify: verify-otp is not behind otpRequestLimiter. *)
StartVerify_Unlimited(r, ip, role, identifier, otp, newPassword) ==
  /\ Free(r)
  /\ nreq' = nreq + 1
  /\ LET q == [Idle EXCEPT !.kind = "verify", !.ip = ip, !.role = role,
                           !.identifier = identifier, !.otp = otp,
                           !.newPassword = newPassword]
     IN req' = [req EXCEPT ![r] =
          IF role = "" \/ identifier = "" \/ otp = "" \/ newPassword = ""
            THEN [q EXCEPT !.pc = "done", !.resp = Resp(400, "All fields are required")]
          ELSE IF Len(newPassword) < MinPasswordLen
            THEN [q EXCEPT !.pc = "done",
                           !.resp = Resp(400, "Password must be at least 8 characters long")]
          ELSE IF role = "admin"
            THEN [q EXCEPT !.pc = "done",
                           !.resp = Resp(400, "Password reset not available for admin accounts")]
          ELSE IF role \notin {"teacher", "student"}
            THEN [q EXCEPT !.pc = "done", !.resp = Resp(400, "Invalid role")]
          ELSE [q EXCEPT !.pc = "lookup"]]
  /\ UNCHANGED <<gen, generated, db, otp_tokens, activity_logs, sent, sessions, otpHits, loginHits, now>>

(* otpRequestLimiter, then the handler up to its first await. *)
StartVerify(r, ip, role, identifier, otp, newPassword) ==
  /\ Free(r)
  /\ nreq' = nreq + 1
  /\ otpHits' = Hit(otpHits, OtpKey(ip, identifier), OtpWindow)
  /\ LET q == [Idle EXCEPT !.kind = "verify", !.ip = ip, !.role = role,
                           !.identifier = identifier, !.otp = otp,
                           !.newPassword = newPassword]
     IN req' = [req EXCEPT ![r] =
          IF OtpLimited(otpHits', OtpKey(ip, identifier))
            THEN [q EXCEPT !.pc = "done",
                           !.resp = Resp(429, "Too many OTP requests. Please try again after an hour.")]
          ELSE IF role = "" \/ identifier = "" \/ otp = "" \/ newPassword = ""
            THEN [q EXCEPT !.pc = "done", !.resp = Resp(400, "All fields are required")]
          ELSE IF Len(newPassword) < MinPasswordLen
            THEN [q EXCEPT !.pc = "done",
                           !.resp = Resp(400, "Password must be at least 8 characters long")]
          ELSE IF role = "admin"
            THEN [q EXCEPT !.pc = "done",
                           !.resp = Resp(400, "Password reset not available for admin accounts")]
          ELSE IF role \notin {"teacher", "student"}
            THEN [q EXCEPT !.pc = "done", !.resp = Resp(400, "Invalid role")]
          ELSE [q EXCEPT !.pc = "lookup"]]
  /\ UNCHANGED <<gen, generated, db, otp_tokens, activity_logs, sent, sessions, loginHits, now>>

(* The principal lookup. *)
VerifyLookup(r) ==
  /\ req[r].kind = "verify" /\ req[r].pc = "lookup"
  /\ LET user == maybeSingle(TableOf(req[r].role), req[r].identifier)
     IN req' = IF user = ""
               THEN Reply(r, 400, "Invalid credentials")
               ELSE [req EXCEPT ![r].pc = "select", ![r].user = user]
  /\ UNCHANGED <<gen, generated, db, otp_tokens, activity_logs, sent, sessions, otpHits, loginHits, now, nreq>>

(* Mutant of VerifySelect: a wrong code invalidates the principal's tokens. *)
VerifySelect_BurnsOnWrong(r) ==
  /\ req[r].kind = "verify" /\ req[r].pc = "select"
  /\ LET otpTokens == LiveTokens(req[r].role, req[r].user, now)
         validToken == FirstValidToken(otpTokens, req[r].otp)
     IN IF otpTokens = {}
          THEN /\ req' = [Reply(r, 400, "OTP expired or invalid") EXCEPT ![r].queryTime = now]
               /\ otp_tokens' = otp_tokens
        ELSE IF validToken = 0
          THEN /\ req' = [Reply(r, 400, "Invalid OTP") EXCEPT ![r].queryTime = now]
               /\ otp_tokens' = InvalidateTokens(req[r].role, req[r].user)
        ELSE /\ req' = [req EXCEPT ![r].pc = "mark", ![r].queryTime = now,
                                   ![r].validToken = validToken]
             /\ otp_tokens' = otp_tokens
  /\ UNCHANGED <<gen, generated, db, activity_logs, sent, sessions, otpHits, loginHits, now, nreq>>

(* The query for the principal's unused, unexpired tokens, and the loop that
   compares the supplied code with each of them. *)
VerifySelect(r) ==
  /\ req[r].kind = "verify" /\ req[r].pc = "select"
  /\ LET otpTokens == LiveTokens(req[r].role, req[r].user, now)
         validToken == FirstValidToken(otpTokens, req[r].otp)
     IN req' = IF otpTokens = {}
                 THEN [Reply(r, 400, "OTP expired or invalid") EXCEPT ![r].queryTime = now]
               ELSE IF validToken = 0
                 THEN [Reply(r, 400, "Invalid OTP") EXCEPT ![r].queryTime = now]
               ELSE [req EXCEPT ![r].pc = "mark", ![r].queryTime = now,
                                ![r].validToken = validToken]
  /\ UNCHANGED <<gen, generated, db, otp_tokens, activity_logs, sent, sessions, otpHits, loginHits, now, nreq>>

(* Mutant of VerifyMark: the matched token is left unused. *)
VerifyMark_Skip(r) ==
  /\ req[r].kind = "verify" /\ req[r].pc = "mark"
  /\ req' = Goto(r, "update")
  /\ UNCHANGED <<gen, generated, db, otp_tokens, activity_logs, sent, sessions, otpHits, loginHits, now, nreq>>

(* The matched token is marked used. *)
VerifyMark(r) ==
  /\ req[r].kind = "verify" /\ req[r].pc = "mark"
  /\ otp_tokens' = MarkTokenUsed(req[r].validToken)
  /\ req' = Goto(r, "update")
  /\ UNCHANGED <<gen, generated, db, activity_logs, sent, sessions, otpHits, loginHits, now, nreq>>

(* Mutant of VerifyUpdate: the update leaves must_change_password as it was. *)
VerifyUpdate_KeepFlag(r) ==
  /\ req[r].kind = "verify" /\ req[r].pc = "update"
  /\ db' = [db EXCEPT ![TableOf(req[r].role)][req[r].user] =
              [@ EXCEPT !.password_hash = hashPassword(req[r].newPassword)]]
  /\ req' = Goto(r, "log")
  /\ UNCHANGED <<gen, generated, otp_tokens, activity_logs, sent, sessions, otpHits, loginHits, now, nreq>>

(* hashPassword(newPassword) and the update of the principal's row. *)
VerifyUpdate(r) ==
  /\ req[r].kind = "verify" /\ req[r].pc = "update"
  /\ db' = [db EXCEPT ![TableOf(req[r].role)][req[r].user] =
              [@ EXCEPT !.password_hash = hashPassword(req[r].newPassword),
                        !.must_change_password = FALSE]]
  /\ req' = Goto(r, "log")
  /\ UNCHANGED <<gen, generated, otp_tokens, activity_logs, sent, sessions, otpHits, loginHits, now, nreq>>

(* The password_reset_via_otp entry and the answer. *)
VerifyLog(r) ==
  /\ req[r].kind = "verify" /\ req[r].pc = "log"
  /\ activity_logs' = logActivity(req[r].role, req[r].user, "password_reset_via_otp")
  /\ req' = Reply(r, 200, "Password reset successfully")
  /\ UNCHANGED <<gen, generated, db, otp_tokens, sent, sessions, otpHits, loginHits, now, nreq>>

-----------------------------------------------------------------------------
(* POST /login *)

(* loginLimiter, then the handler up to its first await. *)
StartLogin(r, ip, role, username, password) ==
  /\ Free(r)
  /\ nreq' = nreq + 1
  /\ loginHits' = Hit(loginHits, ip, LoginWindow)
  /\ LET q == [Idle EXCEPT !.kind = "login", !.ip = ip, !.role = role,
                           !.identifier = username, !.password = password]
     IN req' = [req EXCEPT ![r] =
          IF LoginLimited(loginHits', ip)
            THEN [q EXCEPT !.pc = "done",
                           !.resp = Resp(429, "Too many login attempts. Please try again after 15 minutes.")]
          ELSE IF role = "" \/ username = "" \/ password = ""
            THEN [q EXCEPT !.pc = "done",
                           !.resp = Resp(400, "Role, username, and password are required")]
          ELSE IF role \notin {"admin", "teacher", "student"}
            THEN [q EXCEPT !.pc = "done", !.resp = Resp(400, "Invalid role")]
          ELSE [q EXCEPT !.pc = "lookup"]]
  /\ UNCHANGED <<gen, generated, db, otp_tokens, activity_logs, sent, sessions, otpHits, now>>

(* Mutant of LoginLookup: an unknown identifier is answered differently from
   a wrong password. *)
LoginLookup_Distinguish(r) ==
  /\ req[r].kind = "login" /\ req[r].pc = "lookup"
  /\ LET table == TableOf(req[r].role)
         user == maybeSingle(table, req[r].identifier)
     IN IF user = ""
          THEN req' = Reply(r, 404, "User not found") /\ sessions' = sessions
        ELSE IF ~comparePassword(req[r].password, db[table][user].password_hash)
          THEN req' = Reply(r, 401, "Invalid credentials") /\ sessions' = sessions
        ELSE /\ req' = [req EXCEPT ![r].pc = "log", ![r].user = user]
             /\ sessions' = [sessions EXCEPT ![r] =
                  [id |-> user, role |-> req[r].role, username |-> db[table][user].ident,
                   mustChangePassword |-> db[table][user].must_change_password]]
  /\ UNCHANGED <<gen, generated, db, otp_tokens, activity_logs, sent, otpHits, loginHits, now, nreq>>

(* Mutant of LoginLookup: the session user is set as soon as the principal is
   found, before the password is compared. *)
LoginLookup_SessionFirst(r) ==
  /\ req[r].kind = "login" /\ req[r].pc = "lookup"
  /\ LET table == TableOf(req[r].role)
         user == maybeSingle(table, req[r].identifier)
     IN IF user = ""
          THEN req' = Reply(r, 401, "Invalid credentials") /\ sessions' = sessions
        ELSE /\ req' = IF ~comparePassword(req[r].password, db[table][user].password_hash)
                         THEN Reply(r, 401, "Invalid credentials")
                       ELSE [req EXCEPT ![r].pc = "log", ![r].user = user]
             /\ sessions' = [sessions EXCEPT ![r] =
                  [id |-> user, role |-> req[r].role, username |-> db[table][user].ident,
                   mustChangePassword |-> db[table][user].must_change_password]]
  /\ UNCHANGED <<gen, generated, db, otp_tokens, activity_logs, sent, otpHits, loginHits, now, nreq>>

(* The principal lookup, comparePassword on the row it returned, and the
   session user set on req.session. *)
LoginLookup(r) ==
  /\ req[r].kind = "login" /\ req[r].pc = "lookup"
  /\ LET table == TableOf(req[r].role)
         user == maybeSingle(table, req[r].identifier)
     IN IF user = ""
          THEN req' = Reply(r, 401, "Invalid credentials") /\ sessions' = sessions
        ELSE IF ~comparePassword(req[r].password, db[table][user].password_hash)
          THEN req' = Reply(r, 401, "Invalid credentials") /\ sessions' = sessions
        ELSE /\ req' = [req EXCEPT ![r].pc = "log", ![r].user = user]
             /\ sessions' = [sessions EXCEPT ![r] =
                  [id |-> user, role |-> req[r].role, username |-> db[table][user].ident,
                   mustChangePassword |-> db[table][user].must_change_password]]
  /\ UNCHANGED <<gen, generated, db, otp_tokens, activity_logs, sent, otpHits, loginHits, now, nreq>>

(* The login entry and the answer. *)
LoginLog(r) ==
  /\ req[r].kind = "login" /\ req[r].pc = "log"
  /\ activity_logs' = logActivity(req[r].role, req[r].user, "login")
  /\ req' = Reply(r, 200, "success")
  /\ UNCHANGED <<gen, generated, db, otp_tokens, sent, sessions, otpHits, loginHits, now, nreq>>

LoginSteps(r) ==
  \/ LoginLookup(r)
  \/ LoginLog(r)

-----------------------------------------------------------------------------
(* POST /logout and GET /session *)

(* req.session.destroy: the session is destroyed and the caller told so, or
   the session store reports an error and the session stays. *)
Logout(r) ==
  /\ Free(r)
  /\ nreq' = nreq + 1
  /\ \/ /\ sessions' = [sessions EXCEPT ![r] = NoSession]
        /\ req' = [req EXCEPT ![r] = [Idle EXCEPT !.kind = "logout", !.pc = "done",
                                                  !.resp = Resp(200, "Logged out successfully")]]
     \/ /\ sessions' = sessions
        /\ req' = [req EXCEPT ![r] = [Idle EXCEPT !.kind = "logout", !.pc = "done",
                                                  !.resp = Resp(500, "Logout failed")]]
  /\ UNCHANGED <<gen, generated, db, otp_tokens, activity_logs, sent, otpHits, loginHits, now>>

(* The caller's session user, or 401 when there is none. *)
SessionRead(r) ==
  /\ Free(r)
  /\ nreq' = nreq + 1
  /\ req' = [req EXCEPT ![r] =
       IF sessions[r] # NoSession
         THEN [Idle EXCEPT !.kind = "session", !.pc = "done", !.resp = Resp(200, "user"),
                           !.body = sessions[r]]
       ELSE [Idle EXCEPT !.kind = "session", !.pc = "done", !.resp = Resp(401, "No active session")]]
  /\ UNCHANGED <<gen, generated, db, otp_tokens, activity_logs, sent, sessions, otpHits, loginHits, now>>

-----------------------------------------------------------------------------
(* POST /change-password *)

(* The handler up to its first await: the session check, role and id taken
   from the session user, and the validation of the two passwords. *)
StartChange(r, currentPassword, newPassword) ==
  /\ Free(r)
  /\ nreq' = nreq + 1
  /\ LET q == [Idle EXCEPT !.kind = "change", !.password = currentPassword,
                           !.newPassword = newPassword]
     IN req' = [req EXCEPT ![r] =
          IF sessions[r] = NoSession
            THEN [q EXCEPT !.pc = "done", !.resp = Resp(401, "Unauthorized")]
          ELSE IF currentPassword = "" \/ newPassword = ""
            THEN [q EXCEPT !.pc = "done", !.role = sessions[r].role, !.user = sessions[r].id,
                           !.resp = Resp(400, "Current and new passwords are required")]
          ELSE IF Len(newPassword) < MinPasswordLen
            THEN [q EXCEPT !.pc = "done", !.role = sessions[r].role, !.user = sessions[r].id,
                           !.resp = Resp(400, "Password must be at least 8 characters long")]
          ELSE [q EXCEPT !.pc = "lookup", !.role = sessions[r].role, !.user = sessions[r].id]]
  /\ UNCHANGED <<gen, generated, db, otp_tokens, activity_logs, sent, sessions, otpHits, loginHits, now>>

(* Mutant of ChangeLookup: a wrong current password clears the flag of the
   session all the same. *)
ChangeLookup_ClearsFlag(r) ==
  /\ req[r].kind = "change" /\ req[r].pc = "lookup"
  /\ LET table == TableOf(req[r].role)
     IN IF req[r].user \notin DOMAIN db[table]
          THEN req' = Reply(r, 404, "User not found") /\ sessions' = sessions
        ELSE IF ~comparePassword(req[r].password, db[table][req[r].user].password_hash)
          THEN /\ req' = Reply(r, 401, "Current password is incorrect")
               /\ sessions' = [sessions EXCEPT ![r].mustChangePassword = FALSE]
        ELSE req' = Goto(r, "update") /\ sessions' = sessions
  /\ UNCHANGED <<gen, generated, db, otp_tokens, activity_logs, sent, otpHits, loginHits, now, nreq>>

(* .select('password_hash').eq('id', id).single() and comparePassword on the
   row it returned. *)
ChangeLookup(r) ==
  /\ req[r].kind = "change" /\ req[r].pc = "lookup"
  /\ LET table == TableOf(req[r].role)
     IN req' = IF req[r].user \notin DOMAIN db[table]
                 THEN Reply(r, 404, "User not found")
               ELSE IF ~comparePassword(req[r].password, db[table][req[r].user].password_hash)
                 THEN Reply(r, 401, "Current password is incorrect")
               ELSE Goto(r, "update")
  /\ UNCHANGED <<gen, generated, db, otp_tokens, activity_logs, sent, sessions, otpHits, loginHits, now, nreq>>

(* .update({ password_hash, must_change_password: false }).eq('id', id): the
   principal's row when it exists. *)
UpdatePassword(table, id, newPassword) ==
  IF id \in DOMAIN db[table]
  THEN [db EXCEPT ![table][id] =
          [@ EXCEPT !.password_hash = hashPassword(newPassword), !.must_change_password = FALSE]]
  ELSE db

(* Mutant of ChangeUpdate: the session copy of the flag is left as it was. *)
ChangeUpdate_StaleSession(r) ==
  /\ req[r].kind = "change" /\ req[r].pc = "update"
  /\ db' = UpdatePassword(TableOf(req[r].role), req[r].user, req[r].newPassword)
  /\ req' = Goto(r, "log")
  /\ UNCHANGED <<gen, generated, otp_tokens, activity_logs, sent, sessions, otpHits, loginHits, now, nreq>>

(* Mutant of ChangeUpdate: the flag is cleared in every session of the
   principal. *)
ChangeUpdate_AllSessions(r) ==
  /\ req[r].kind = "change" /\ req[r].pc = "update"
  /\ db' = UpdatePassword(TableOf(req[r].role), req[r].user, req[r].newPassword)
  /\ sessions' = [s \in Slots |->
                    IF sessions[s] # NoSession /\ sessions[s].role = req[r].role
                       /\ sessions[s].id = req[r].user
                    THEN [sessions[s] EXCEPT !.mustChangePassword = FALSE]
                    ELSE sessions[s]]
  /\ req' = Goto(r, "log")
  /\ UNCHANGED <<gen, generated, otp_tokens, activity_logs, sent, otpHits, loginHits, now, nreq>>

(* hashPassword(newPassword), the update of the principal's row, and the flag
   cleared on the session user. *)
ChangeUpdate(r) ==
  /\ req[r].kind = "change" /\ req[r].pc = "update"
  /\ db' = UpdatePassword(TableOf(req[r].role), req[r].user, req[r].newPassword)
  /\ sessions' = IF sessions[r] # NoSession
                 THEN [sessions EXCEPT ![r].mustChangePassword = FALSE]
                 ELSE sessions
  /\ req' = Goto(r, "log")
  /\ UNCHANGED <<gen, generated, otp_tokens, activity_logs, sent, otpHits, loginHits, now, nreq>>

(* The password_changed entry and the answer. *)
ChangeLog(r) ==
  /\ req[r].kind = "change" /\ req[r].pc = "log"
  /\ activity_logs' = logActivity(req[r].role, req[r].user, "password_changed")
  /\ req' = Reply(r, 200, "Password changed successfully")
  /\ UNCHANGED <<gen, generated, db, otp_tokens, sent, sessions, otpHits, loginHits, now, nreq>>

ChangeSteps(r) ==
  \/ ChangeLookup(r)
  \/ ChangeUpdate(r)
  \/ ChangeLog(r)

-----------------------------------------------------------------------------
(* DELETE /admin/teachers/:id, the provisioning route through which a
   principal vanishes. *)

(* requireAdmin, then the handler up to its delete. *)
StartDeleteTeacher(r, id) ==
  /\ Free(r)
  /\ nreq' = nreq + 1
  /\ LET q == [Idle EXCEPT !.kind = "delete", !.identifier = id]
     IN req' = [req EXCEPT ![r] =
          IF sessions[r] = NoSession
            THEN [q EXCEPT !.pc = "done", !.resp = Resp(401, "Unauthorized - Please login")]
          ELSE IF sessions[r].role # "admin"
            THEN [q EXCEPT !.pc = "done", !.resp = Resp(403, "Forbidden - Insufficient permissions")]
          ELSE [q EXCEPT !.pc = "delete", !.role = "admin", !.user = sessions[r].id]]
  /\ UNCHANGED <<gen, generated, db, otp_tokens, activity_logs, sent, sessions, otpHits, loginHits, now>>

(* .from('teachers').delete().eq('id', id) *)
DeleteTeacher(r) ==
  /\ req[r].kind = "delete" /\ req[r].pc = "delete"
  /\ db' = [db EXCEPT !["teachers"] =
              [i \in DOMAIN db["teachers"] \ {req[r].identifier} |-> db["teachers"][i]]]
  /\ req' = Goto(r, "log")
  /\ UNCHANGED <<gen, generated, otp_tokens, activity_logs, sent, sessions, otpHits, loginHits, now, nreq>>

(* The teacher_deleted entry and the answer. *)
DeleteLog(r) ==
  /\ req[r].kind = "delete" /\ req[r].pc = "log"
  /\ activity_logs' = logActivity("admin", req[r].user, "teacher_deleted")
  /\ req' = Reply(r, 200, "Teacher deleted successfully")
  /\ UNCHANGED <<gen, generated, db, otp_tokens, sent, sessions, otpHits, loginHits, now, nreq>>

DeleteSteps(r) ==
  \/ DeleteTeacher(r)
  \/ DeleteLog(r)

-----------------------------------------------------------------------------
(* The role-protected routers: requireRole in front of every route of the
   admin, teacher and student routers. *)

Routers == {"admin", "teacher", "student"}

(* requireAdmin, requireTeacher, requireStudent: the roles each router asks for. *)
RequiredRoles(router) == {router}

(* Mutant of requireRole: any logged-in user passes (requireAuth). *)
requireRole_AuthOnly(roles, session) ==
  IF session = NoSession THEN Resp(401, "Unauthorized - Please login")
  ELSE NoResp

(* The middleware's answer, or NoResp when it calls next(). *)
requireRole(roles, session) ==
  IF session = NoSession THEN Resp(401, "Unauthorized - Please login")
  ELSE IF session.role \notin roles THEN Resp(403, "Forbidden - Insufficient permissions")
  ELSE NoResp

(* A request to a route of a protected router: the middleware, and the
   handler entered when the middleware calls next(). *)
StartProtected(r, router) ==
  /\ Free(r)
  /\ nreq' = nreq + 1
  /\ LET q == [Idle EXCEPT !.kind = "protected", !.identifier = router]
         answer == requireRole(RequiredRoles(router), sessions[r])
     IN req' = [req EXCEPT ![r] =
          IF answer # NoResp
            THEN [q EXCEPT !.pc = "done", !.resp = answer]
          ELSE [q EXCEPT !.pc = "handler", !.role = sessions[r].role, !.user = sessions[r].id]]
  /\ UNCHANGED <<gen, generated, db, otp_tokens, activity_logs, sent, sessions, otpHits, loginHits, now>>

(* The route handler behind the middleware, a read of the store answered 200. *)
ProtectedHandler(r) ==
  /\ req[r].kind = "protected" /\ req[r].pc = "handler"
  /\ req' = Reply(r, 200, "handled")
  /\ UNCHANGED <<gen, generated, db, otp_tokens, activity_logs, sent, sessions, otpHits, loginHits, now, nreq>>

-----------------------------------------------------------------------------
(* The recovery flow: forgot-password and verify-otp requests of two clients,
   interleaved at every store and notifier call. *)


ForgotSteps(r, codes) ==
  \/ ForgotLookup(r)
  \/ ForgotInvalidate(r)
  \/ ForgotInsert(r, codes)
  \/ ForgotSend(r)
  \/ ForgotLog(r)
  \/ ForgotRollback(r)

VerifySteps(r) ==
  \/ VerifyLookup(r)
  \/ VerifySelect(r)
  \/ VerifyMark(r)
  \/ VerifyUpdate(r)
  \/ VerifyLog(r)

Next ==
  \/ Tick(TickStep, MaxTime)
  \/ /\ nreq < MaxRequests
     /\ \E r \in Slots :
          StartForgot(r, "10.0.0.1", "student", "2024001")
  \/ /\ nreq < MaxRequests
     /\ \E r \in Slots, otp \in generateOTP :
          StartVerify(r, "10.0.0.1", "student", "2024001", otp, "NewPass1!")
  \/ \E r \in Slots : ForgotSteps(r, generateOTP)
  \/ \E r \in Slots : VerifySteps(r)

Spec == Init /\ [][Next]_vars

-----------------------------------------------------------------------------
(* The recovery flow when forgot-password requests for one identifier do not
   overlap: a client sends one only while no other request for that identifier
   is between its lookup and its answer.  verify-otp requests overlap freely. *)

RecoveryIdentifiers == {"2024001", "nobody"}

ForgotInFlight(identifier) ==
  \E s \in Slots : req[s].kind = "forgot" /\ req[s].pc # "done" /\ req[s].identifier = identifier

NextSeqIssue ==
  \/ Tick(TickStep, MaxTime)
  \/ /\ nreq < MaxRequests
     /\ \E r \in Slots, identifier \in RecoveryIdentifiers :
          ~ForgotInFlight(identifier) /\ StartForgot(r, "10.0.0.1", "student", identifier)
  \/ /\ nreq < MaxRequests
     /\ \E r \in Slots, otp \in generateOTP :
          StartVerify(r, "10.0.0.1", "student", "2024001", otp, "NewPass1!")
  \/ \E r \in Slots : ForgotSteps(r, generateOTP)
  \/ \E r \in Slots : VerifySteps(r)

SpecSeqIssue == Init /\ [][NextSeqIssue]_vars

-----------------------------------------------------------------------------
(* Resubmission: tokens are issued first (forgot-password requests overlap
   freely); once the first verify-otp has been sent no further token is
   requested, and each verify-otp is sent, alone, after every earlier request
   has been answered.  Time passes between requests. *)

VerifySent == \E s \in Slots : req[s].kind = "verify"
AllAnswered == \A s \in Slots : Free(s)

NextResubmit ==
  \/ AllAnswered /\ Tick(TickStep, MaxTime)
  \/ /\ nreq <= MaxRequests
     /\ ~VerifySent
     /\ \E r \in Slots : StartForgot(r, "10.0.0.1", "student", "2024001")
  \/ /\ nreq <= MaxRequests
     /\ AllAnswered
     /\ \E r \in Slots, otp \in generateOTP :
          StartVerify(r, "10.0.0.1", "student", "2024001", otp, "NewPass1!")
  \/ \E r \in Slots : ForgotSteps(r, generateOTP)
  \/ \E r \in Slots : VerifySteps(r)

SpecResubmit == Init /\ [][NextResubmit]_vars

-----------------------------------------------------------------------------
(* Login requests of two clients, for every role. *)

LoginInputs ==
  {<<"admin", "admin", "Admin@123">>, <<"admin", "admin", "wrong">>, <<"admin", "nobody", "Admin@123">>,
   <<"teacher", "T10001", "Teacher@123">>, <<"teacher", "T10001", "wrong">>,
   <<"teacher", "nobody", "Teacher@123">>,
   <<"student", "2024001", "Student@123">>, <<"student", "2024001", "wrong">>,
   <<"student", "T10001", "Teacher@123">>,
   <<"guest", "admin", "Admin@123">>, <<"", "admin", "Admin@123">>}

NextLogin ==
  \/ /\ nreq < MaxRequests
     /\ \E r \in Slots, in \in LoginInputs : StartLogin(r, "10.0.0.1", in[1], in[2], in[3])
  \/ \E r \in Slots : LoginSteps(r)

SpecLogin == Init /\ [][NextLogin]_vars

-----------------------------------------------------------------------------
(* The login throttle: one client after another, from two network origins,
   over more than one window. *)

Client == CHOOSE r \in Slots : \A s \in Slots : r <= s

NextLoginLimit ==
  \/ Free(Client) /\ Tick(TickStep, LoginWindow + TickStep)
  \/ /\ nreq < LoginMax + MaxRequests
     /\ \E ip \in Origins, password \in {"Admin@123", "wrong"} :
          StartLogin(Client, ip, "admin", "admin", password)
  \/ LoginSteps(Client)

SpecLoginLimit == Init /\ [][NextLoginLimit]_vars

-----------------------------------------------------------------------------
(* The OTP-request throttle: forgot-password requests, one after another,
   from two network origins, over more than one window. *)

NextOtpLimit ==
  \/ Free(Client) /\ Tick(OtpWindow \div 2, OtpWindow)
  \/ /\ nreq < OtpMax + MaxRequests
     /\ \E ip \in Origins, identifier \in {"2024001", ""} :
          StartForgot(Client, ip, "student", identifier)
  \/ ForgotSteps(Client, {"100000"})

SpecOtpLimit == Init /\ [][NextOtpLimit]_vars

-----------------------------------------------------------------------------
(* The OTP-request throttle over both recovery endpoints: forgot-password and
   verify-otp requests of one client naming the student, one after another,
   over more than one window. *)

NextOtpShared ==
  \/ Free(Client) /\ Tick(OtpWindow \div 2, OtpWindow)
  \/ /\ nreq < OtpMax + MaxRequests
     /\ \/ StartForgot(Client, "10.0.0.1", "student", "2024001")
        \/ StartVerify(Client, "10.0.0.1", "student", "2024001", "100000", "NewPass1!")
  \/ ForgotSteps(Client, {"100000"})
  \/ VerifySteps(Client)

SpecOtpShared == Init /\ [][NextOtpShared]_vars

-----------------------------------------------------------------------------
(* Data-store failures.  A call on the store client never throws: when the
   store reports an error the call resolves to { data: null, error }, and the
   handlers read data only.  Each action below is one handler at one of its
   store calls, when that call fails. *)

Failed(q) == [q EXCEPT !.storeError = TRUE]

(* login: the principal lookup fails, user is null. *)
LoginStoreFails(r) ==
  /\ req[r].kind = "login" /\ req[r].pc = "lookup"
  /\ req' = [req EXCEPT ![r] = Failed(Reply(r, 401, "Invalid credentials")[r])]
  /\ UNCHANGED <<gen, generated, db, otp_tokens, activity_logs, sent, sessions, otpHits, loginHits, now, nreq>>

(* change-password: the lookup fails, user is null; or the update fails, its
   result is not looked at and the handler goes on. *)
ChangeStoreFails(r) ==
  /\ req[r].kind = "change"
  /\ \/ /\ req[r].pc = "lookup"
        /\ req' = [req EXCEPT ![r] = Failed(Reply(r, 404, "User not found")[r])]
        /\ sessions' = sessions
     \/ /\ req[r].pc = "update"
        /\ req' = [req EXCEPT ![r] = Failed(Goto(r, "log")[r])]
        /\ sessions' = IF sessions[r] # NoSession
                       THEN [sessions EXCEPT ![r].mustChangePassword = FALSE]
                       ELSE sessions
  /\ UNCHANGED <<gen, generated, db, otp_tokens, activity_logs, sent, otpHits, loginHits, now, nreq>>

(* forgot-password: the lookup fails, user is null; or the invalidating
   update, the insert or the rollback update fails and the handler goes on. *)
ForgotStoreFails(r) ==
  /\ req[r].kind = "forgot"
  /\ \/ /\ req[r].pc = "lookup"
        /\ req' = [req EXCEPT ![r] = Failed(
             Reply(r, 200, "If the account exists, an OTP has been sent to the registered email")[r])]
     \/ /\ req[r].pc = "invalidate"
        /\ req' = [req EXCEPT ![r] = Failed(Goto(r, "insert")[r])]
     \/ /\ req[r].pc = "insert"
        /\ \E otp \in generateOTP :
             req' = [req EXCEPT ![r] = Failed([req[r] EXCEPT !.pc = "send", !.otpCode = otp])]
     \/ /\ req[r].pc = "rollback"
        /\ req' = [req EXCEPT ![r] = Failed(
             Reply(r, 503, "Failed to send OTP email. Please contact your administrator.")[r])]
  /\ UNCHANGED <<gen, generated, db, otp_tokens, activity_logs, sent, sessions, otpHits, loginHits, now, nreq>>

(* verify-otp: the lookup fails, user is null; the token query fails,
   otpTokens is null; or the mark-used update or the password update fails
   and the handler goes on. *)
VerifyStoreFails(r) ==
  /\ req[r].kind = "verify"
  /\ \/ /\ req[r].pc = "lookup"
        /\ req' = [req EXCEPT ![r] = Failed(Reply(r, 400, "Invalid credentials")[r])]
     \/ /\ req[r].pc = "select"
        /\ req' = [req EXCEPT ![r] = Failed(Reply(r, 400, "OTP expired or invalid")[r])]
     \/ /\ req[r].pc = "mark"
        /\ req' = [req EXCEPT ![r] = Failed(Goto(r, "update")[r])]
     \/ /\ req[r].pc = "update"
        /\ req' = [req EXCEPT ![r] = Failed(Goto(r, "log")[r])]
  /\ UNCHANGED <<gen, generated, db, otp_tokens, activity_logs, sent, sessions, otpHits, loginHits, now, nreq>>

(* The answer of a handler after its logActivity call. *)
AfterLog(kind) ==
  IF kind = "login" THEN Resp(200, "success")
  ELSE IF kind = "change" THEN Resp(200, "Password changed successfully")
  ELSE IF kind = "forgot" THEN Resp(200, "OTP has been sent to your registered email address")
  ELSE Resp(200, "Password reset successfully")

(* Mutant of LogWriteFails: the failure of the log write aborts the request. *)
LogWriteFails_Aborts(r) ==
  /\ req[r].kind \in {"login", "change", "forgot", "verify"} /\ req[r].pc = "log"
  /\ req' = Reply(r, 500, "Internal server error")
  /\ UNCHANGED <<gen, generated, db, otp_tokens, activity_logs, sent, sessions, otpHits, loginHits, now, nreq>>

(* logActivity when its insert fails: no row is written, nothing is thrown,
   and the handler answers as it does after a written entry. *)
LogWriteFails(r) ==
  /\ req[r].kind \in {"login", "change", "forgot", "verify"} /\ req[r].pc = "log"
  /\ req' = Reply(r, AfterLog(req[r].kind).status, AfterLog(req[r].kind).text)
  /\ UNCHANGED <<gen, generated, db, otp_tokens, activity_logs, sent, sessions, otpHits, loginHits, now, nreq>>

(* One client, one request after another, every store call of which may fail. *)
NextStoreFail ==
  \/ /\ nreq <= MaxRequests
     /\ \/ \E password \in {"Student@123", "NewPass1!"} :
             StartLogin(Client, "10.0.0.1", "student", "2024001", password)
        \/ \E currentPassword \in {"Student@123", "wrong"} :
             StartChange(Client, currentPassword, "NewPass1!")
        \/ StartForgot(Client, "10.0.0.1", "student", "2024001")
        \/ StartVerify(Client, "10.0.0.1", "student", "2024001", "100000", "NewPass1!")
  \/ LoginSteps(Client)
  \/ ChangeSteps(Client)
  \/ ForgotSteps(Client, {"100000"})
  \/ VerifySteps(Client)
  \/ LoginStoreFails(Client)
  \/ ChangeStoreFails(Client)
  \/ ForgotStoreFails(Client)
  \/ VerifyStoreFails(Client)
  \/ LogWriteFails(Client)

SpecStoreFail == Init /\ [][NextStoreFail]_vars

-----------------------------------------------------------------------------
(* Account requests of two clients, each with its own session cookie: login,
   change-password, session read, logout, and an administrator deleting the
   teacher. *)

NewPasswords == {"NewPass1!", "NewPass2!"}

AccountLogins ==
  {<<"admin", "admin", "Admin@123">>, <<"teacher", "T10001", "Teacher@123">>,
   <<"student", "2024001", "Student@123">>, <<"student", "2024001", "wrong">>}

NextAccount ==
  \/ /\ nreq <= MaxRequests
     /\ \E r \in Slots :
          \/ \E in \in AccountLogins : StartLogin(r, "10.0.0.1", in[1], in[2], in[3])
          \/ \E currentPassword \in {"Student@123", "Teacher@123", "wrong", ""},
                newPassword \in NewPasswords \cup {"short"} :
               StartChange(r, currentPassword, newPassword)
          \/ SessionRead(r)
          \/ Logout(r)
          \/ StartDeleteTeacher(r, "t1")
  \/ \E r \in Slots : LoginSteps(r)
  \/ \E r \in Slots : ChangeSteps(r)
  \/ \E r \in Slots : DeleteSteps(r)

SpecAccount == Init /\ [][NextAccount]_vars

-----------------------------------------------------------------------------
(* Password resets next to the other writers of the password: tokens are
   issued first; verify-otp requests carrying different new passwords, and a
   change-password from the student's own session, overlap freely; logins are
   sent when every earlier request has been answered. *)

NextReset ==
  \/ /\ nreq <= MaxRequests
     /\ ~VerifySent
     /\ \E r \in Slots : StartForgot(r, "10.0.0.1", "student", "2024001")
  \/ /\ nreq <= MaxRequests
     /\ \E r \in Slots, otp \in generateOTP, newPassword \in NewPasswords :
          StartVerify(r, "10.0.0.1", "student", "2024001", otp, newPassword)
  \/ /\ nreq <= MaxRequests
     /\ AllAnswered
     /\ \E r \in Slots, password \in {"Student@123"} \cup NewPasswords :
          StartLogin(r, "10.0.0.1", "student", "2024001", password)
  \/ /\ nreq <= MaxRequests
     /\ \E r \in Slots : StartChange(r, "Student@123", "NewPass2!")
  \/ \E r \in Slots : ForgotSteps(r, {"100000"})
  \/ \E r \in Slots : VerifySteps(r)
  \/ \E r \in Slots : LoginSteps(r)
  \/ \E r \in Slots : ChangeSteps(r)

SpecReset == Init /\ [][NextReset]_vars

-----------------------------------------------------------------------------
(* Recovery requests for every role: forgot-password and verify-otp naming
   the administrator or the teacher, under either role. *)

RecoveryRoles == {"admin", "teacher", "guest"}

NextRoles ==
  \/ /\ nreq <= MaxRequests
     /\ \E r \in Slots, role \in RecoveryRoles, identifier \in {"admin", "T10001"} :
          StartForgot(r, "10.0.0.1", role, identifier)
  \/ /\ nreq <= MaxRequests
     /\ \E r \in Slots, role \in RecoveryRoles, identifier \in {"admin", "T10001"},
           otp \in generateOTP \cup {""}, newPassword \in {"NewPass1!", "short"} :
          StartVerify(r, "10.0.0.1", role, identifier, otp, newPassword)
  \/ \E r \in Slots : ForgotSteps(r, {"100000"})
  \/ \E r \in Slots : VerifySteps(r)

SpecRoles == Init /\ [][NextRoles]_vars

-----------------------------------------------------------------------------
(* Sessions: logins of two clients from one network origin, right and wrong,
   past the login quota, next to a change of the student's password and to
   logouts. *)

SessionLogins ==
  {<<"student", "2024001", "Student@123">>, <<"student", "2024001", "NewPass1!">>,
   <<"teacher", "2024001", "Student@123">>, <<"guest", "2024001", "Student@123">>}

NextSession ==
  \/ /\ nreq < LoginMax + MaxRequests
     /\ \E r \in Slots :
          \/ \E in \in SessionLogins : StartLogin(r, "10.0.0.1", in[1], in[2], in[3])
          \/ StartChange(r, "Student@123", "NewPass1!")
          \/ Logout(r)
  \/ \E r \in Slots : LoginSteps(r)
  \/ \E r \in Slots : ChangeSteps(r)

SpecSession == Init /\ [][NextSession]_vars

-----------------------------------------------------------------------------
(* Requests of two clients to the three protected routers, with and without
   a session, for every role, before and after the student's change of
   password clears mustChangePassword. *)

NextGuard ==
  \/ /\ nreq <= MaxRequests
     /\ \E r \in Slots :
          \/ \E in \in {<<"admin", "admin", "Admin@123">>, <<"teacher", "T10001", "Teacher@123">>,
                        <<"student", "2024001", "Student@123">>} :
               StartLogin(r, "10.0.0.1", in[1], in[2], in[3])
          \/ StartChange(r, "Student@123", "NewPass1!")
          \/ Logout(r)
          \/ \E router \in Routers : StartProtected(r, router)
  \/ \E r \in Slots : LoginSteps(r)
  \/ \E r \in Slots : ChangeSteps(r)
  \/ \E r \in Slots : ProtectedHandler(r)

SpecGuard == Init /\ [][NextGuard]_vars

-----------------------------------------------------------------------------
(* Secret generator: generatePassword.  A string is a sequence of
   characters. *)

uppercase ==
  <<"A", "B", "C", "D", "E", "F", "G", "H", "I", "J", "K", "L", "M", "N",
  "O", "P", "Q", "R", "S", "T", "U", "V", "W", "X", "Y", "Z">>

lowercase ==
  <<"a", "b", "c", "d", "e", "f", "g", "h", "i", "j", "k", "l", "m", "n",
  "o", "p", "q", "r", "s", "t", "u", "v", "w", "x", "y", "z">>

numbers ==
  <<"0", "1", "2", "3", "4", "5", "6", "7", "8", "9">>

symbols ==
  <<"@", "#", "$", "!">>

all == uppercase \o lowercase \o numbers \o symbols

DefaultLength == 8

(* Values Math.random() returns, in hundredths: the least, a middle one and
   one close to 1. *)
RandomDraws == {0, 50, 99}

(* chars[Math.floor(Math.random() * chars.length)], indices counted from 1 *)
Pick(chars, random) == chars[((random * Len(chars)) \div 100) + 1]

Reverse(s) == [i \in 1..Len(s) |-> s[Len(s) + 1 - i]]

Rotate(s, k) == [i \in 1..Len(s) |-> s[((i + k - 1) % Len(s)) + 1]]

(* password.split('').sort(() => Math.random() - 0.5): with a comparator that
   answers at random the order of the result is up to the sort; the result
   is an arrangement of the same characters.  The arrangements drawn here
   are the rotations of the string and its reversal. *)
sortOutcomes(s) == {Rotate(s, k) : k \in 0..(Len(s) - 1)} \cup {Reverse(s)}

(* The call: generatePassword() or generatePassword(n); length takes its
   default when no argument is given. *)
GenStart(args) ==
  /\ gen.pc = "idle"
  /\ gen' = [pc |-> "classes", args |-> args,
             length |-> IF Len(args) = 0 THEN DefaultLength ELSE args[1],
             password |-> <<>>]
  /\ UNCHANGED <<db, otp_tokens, activity_logs, sent, sessions, otpHits, loginHits, req, now, nreq,
                 generated>>

(* Mutant of GenClasses: the fourth character is drawn from the whole
   alphabet. *)
GenClasses_NoSymbol ==
  /\ gen.pc = "classes"
  /\ \E r1, r2, r3, r4 \in RandomDraws :
       gen' = [gen EXCEPT !.pc = "fill",
                          !.password = <<Pick(uppercase, r1), Pick(lowercase, r2),
                                         Pick(numbers, r3), Pick(all, r4)>>]
  /\ UNCHANGED <<db, otp_tokens, activity_logs, sent, sessions, otpHits, loginHits, req, now, nreq,
                 generated>>

(* One character of each class is appended. *)
GenClasses ==
  /\ gen.pc = "classes"
  /\ \E r1, r2, r3, r4 \in RandomDraws :
       gen' = [gen EXCEPT !.pc = "fill",
                          !.password = <<Pick(uppercase, r1), Pick(lowercase, r2),
                                         Pick(numbers, r3), Pick(symbols, r4)>>]
  /\ UNCHANGED <<db, otp_tokens, activity_logs, sent, sessions, otpHits, loginHits, req, now, nreq,
                 generated>>

(* One iteration of for (let i = 4; i < length; i++): i is the length of
   the string so far. *)
GenFill ==
  /\ gen.pc = "fill"
  /\ Len(gen.password) < gen.length
  /\ \E random \in RandomDraws :
       gen' = [gen EXCEPT !.password = Append(@, Pick(all, random))]
  /\ UNCHANGED <<db, otp_tokens, activity_logs, sent, sessions, otpHits, loginHits, req, now, nreq,
                 generated>>

(* The loop is over: the string is shuffled and returned. *)
GenReturn ==
  /\ gen.pc = "fill"
  /\ ~(Len(gen.password) < gen.length)
  /\ \E shuffled \in sortOutcomes(gen.password) :
       gen' = [gen EXCEPT !.pc = "done", !.password = shuffled]
  /\ UNCHANGED <<db, otp_tokens, activity_logs, sent, sessions, otpHits, loginHits, req, now, nreq,
                 generated>>

(* Secret generator: generateOTP. *)

(* Values Math.random() returns, in millionths: the least ones, middle ones
   and the greatest. *)
OtpRandomDraws == {0, 1, 2, 9, 10, 11, 111111, 499999, 500000, 999989, 999990, 999998, 999999}

(* Mutant of OtpNumber: Math.floor(Math.random() * 1000000), the offset lost. *)
OtpNumber_NoOffset(random) == random

(* Math.floor(100000 + Math.random() * 900000), for Math.random() =
   random / 1000000: random * 900000 / 1000000 is random * 9 / 10. *)
OtpNumber(random) == 100000 + ((random * 9) \div 10)

(* Number.prototype.toString for a non-negative integer: its decimal digits,
   most significant first, no leading zero. *)
RECURSIVE toString(_)
toString(n) ==
  IF n < 10 THEN <<numbers[n + 1]>>
  ELSE toString(n \div 10) \o <<numbers[(n % 10) + 1]>>

(* The call generateOTP(): the code it returns is left in gen.password. *)
GenOtp ==
  /\ gen.pc = "idle"
  /\ \E random \in OtpRandomDraws :
       gen' = [gen EXCEPT !.pc = "otp", !.password = toString(OtpNumber(random))]
  /\ UNCHANGED <<db, otp_tokens, activity_logs, sent, sessions, otpHits, loginHits, req, now, nreq,
                 generated>>

NextGenerate ==
  \/ GenStart(<<>>)
  \/ \E n \in MinPasswordLen..MaxLength : GenStart(<<n>>)
  \/ GenClasses
  \/ GenFill
  \/ GenReturn
  \/ GenOtp

SpecGenerate == Init /\ [][NextGenerate]_vars

-----------------------------------------------------------------------------
(* POST /teacher/students/generate.  startId, endId and the student_id
   column are strings, sequences of characters. *)

MaxGenerate == 500      \* endNum - startNum > 500

NaN == -1

DigitValue(c) == CHOOSE d \in 0..9 : numbers[d + 1] = c

IsDigits(s) == Len(s) > 0 /\ \A i \in 1..Len(s) : \E d \in 1..10 : numbers[d] = s[i]

(* parseInt of a string of decimal digits *)
RECURSIVE parseInt(_)
parseInt(s) ==
  IF Len(s) = 0 THEN 0
  ELSE 10 * parseInt(SubSeq(s, 1, Len(s) - 1)) + DigitValue(s[Len(s)])

(* parseInt(startId), parseInt(endId): NaN when the string is no number. *)
ParsedId(s) == IF IsDigits(s) THEN parseInt(s) ELSE NaN

isNaN(n) == n = NaN

(* i.toString().padStart(6, '0') *)
RECURSIVE padStart(_, _)
padStart(s, n) == IF Len(s) >= n THEN s ELSE padStart(<<"0">> \o s, n)

(* The order of the store on the text column student_id. *)
RECURSIVE LexLeq(_, _)
LexLeq(a, b) ==
  IF a = <<>> THEN TRUE
  ELSE IF b = <<>> THEN FALSE
  ELSE IF a[1] = b[1] THEN LexLeq(Tail(a), Tail(b))
  ELSE DigitValue(a[1]) < DigitValue(b[1])

(* student_id of the seeded student, and of every row of the table. *)
SeededStudentIds == {<<"2", "0", "2", "4", "0", "0", "1">>}

StudentIds == SeededStudentIds \cup generated

(* .select('student_id').gte('student_id', startNum.toString())
   .lte('student_id', endNum.toString()) *)
existingIds(startNum, endNum) ==
  {id \in StudentIds : LexLeq(toString(startNum), id) /\ LexLeq(id, toString(endNum))}

(* requireTeacher, then the handler up to its first store call.  The seeded
   teacher belongs to a department, so departmentId is set. *)
StartGenerate(r, startId, endId, passwordMode, samePassword) ==
  /\ Free(r)
  /\ nreq' = nreq + 1
  /\ LET q == [Idle EXCEPT !.kind = "generate", !.password = samePassword]
         answer == requireRole(RequiredRoles("teacher"), sessions[r])
         startNum == ParsedId(startId)
         endNum == ParsedId(endId)
     IN req' = [req EXCEPT ![r] =
          IF answer # NoResp
            THEN [q EXCEPT !.pc = "done", !.resp = answer]
          ELSE IF startId = <<>> \/ endId = <<>> \/ passwordMode = ""
            THEN [q EXCEPT !.pc = "done", !.resp = Resp(400, "All fields are required")]
          ELSE IF isNaN(startNum) \/ isNaN(endNum) \/ startNum > endNum
            THEN [q EXCEPT !.pc = "done", !.resp = Resp(400, "Invalid ID range")]
          ELSE IF endNum - startNum > MaxGenerate
            THEN [q EXCEPT !.pc = "done", !.startNum = startNum, !.endNum = endNum,
                           !.resp = Resp(400, "Cannot generate more than 500 students at once")]
          ELSE IF passwordMode = "same" /\ (samePassword = "" \/ Len(samePassword) < 8)
            THEN [q EXCEPT !.pc = "done", !.startNum = startNum, !.endNum = endNum,
                           !.resp = Resp(400, "Same password must be at least 8 characters")]
          ELSE [q EXCEPT !.pc = "existing", !.role = sessions[r].role, !.user = sessions[r].id,
                         !.startNum = startNum, !.endNum = endNum]]
  /\ UNCHANGED <<gen, generated, db, otp_tokens, activity_logs, sent, sessions, otpHits, loginHits, now>>

(* The query for the student_ids already in the range, and the loop that
   builds one row for every i in startNum..endNum whose padded id is not
   among them. *)
GenerateExisting(r) ==
  /\ req[r].kind = "generate" /\ req[r].pc = "existing"
  /\ LET existing == existingIds(req[r].startNum, req[r].endNum)
         students == {padStart(toString(i), 6) : i \in req[r].startNum..req[r].endNum} \ existing
     IN req' = IF students = {}
                 THEN Reply(r, 400, "All student IDs in range already exist")
               ELSE [req EXCEPT ![r].pc = "insert", ![r].students = students]
  /\ UNCHANGED <<gen, generated, db, otp_tokens, activity_logs, sent, sessions, otpHits, loginHits, now, nreq>>

(* .from('students').insert(students).select(): every row is inserted, or
   the store reports an error, which the handler throws and answers 500. *)
GenerateInsert(r) ==
  /\ req[r].kind = "generate" /\ req[r].pc = "insert"
  /\ \/ /\ generated' = generated \cup req[r].students
        /\ req' = [req EXCEPT ![r].pc = "log", ![r].inserted = Cardinality(req[r].students)]
     \/ /\ generated' = generated
        /\ req' = [Reply(r, 500, "Failed to generate students") EXCEPT ![r].storeError = TRUE]
  /\ UNCHANGED <<gen, db, otp_tokens, activity_logs, sent, sessions, otpHits, loginHits, now, nreq>>

(* The students_bulk_generated entry and the answer. *)
GenerateLog(r) ==
  /\ req[r].kind = "generate" /\ req[r].pc = "log"
  /\ activity_logs' = logActivity("teacher", req[r].user, "students_bulk_generated")
  /\ req' = Reply(r, 201, "success")
  /\ UNCHANGED <<gen, generated, db, otp_tokens, sent, sessions, otpHits, loginHits, now, nreq>>

GenerateSteps(r) ==
  \/ GenerateExisting(r)
  \/ GenerateInsert(r)
  \/ GenerateLog(r)

(* One client: it logs in as the teacher or as the student and asks for
   ranges of student IDs around the limit. *)
StartIds == {<<>>, toString(1), toString(2), <<"x">>}

EndIds == {<<>>} \cup {toString(n) : n \in {1, MaxGenerate, MaxGenerate + 1, MaxGenerate + 2, MaxGenerate + 3}}

PasswordModes == {<<"random", "">>, <<"same", "short">>, <<"same", "Welcome@123">>}

NextBulk ==
  \/ /\ nreq <= MaxRequests
     /\ \/ \E in \in {<<"teacher", "T10001", "Teacher@123">>, <<"student", "2024001", "Student@123">>} :
             StartLogin(Client, "10.0.0.1", in[1], in[2], in[3])
        \/ \E startId \in StartIds, endId \in EndIds, mode \in PasswordModes :
             StartGenerate(Client, startId, endId, mode[1], mode[2])
  \/ LoginSteps(Client)
  \/ GenerateSteps(Client)

SpecBulk == Init /\ [][NextBulk]_vars

-----------------------------------------------------------------------------
(* Vocabulary of the properties *)

IsForgot(r) == req[r].kind = "forgot"
IsVerify(r) == req[r].kind = "verify"
Done(r) == req[r].pc = "done"
Succeeded(r) == Done(r) /\ req[r].resp.status = 200
SamePrincipal(a, b) == req[a].role = req[b].role /\ req[a].identifier = req[b].identifier
OtpError(resp) == resp.status = 400 /\ resp.text \in {"OTP expired or invalid", "Invalid OTP"}

(* The step in which request r runs its token query. *)
SelectStep(r) == IsVerify(r) /\ req[r].pc = "select" /\ req'[r].pc # "select"

(* Tokens of the principal of request r that the code supplied by r verifies. *)
Matching(r) ==
  {t \in TokenIds : /\ otp_tokens[t].user_type = req[r].role
                    /\ otp_tokens[t].user_id = req[r].user
                    /\ comparePassword(req[r].otp, otp_tokens[t].otp_code_hash)}

-----------------------------------------------------------------------------
(* C1: of two verify-otp requests that matched the same token (so they ran
   concurrently with the same correct code), at most one returns success. *)
C1_AtMostOneSuccess ==
  \A a, b \in Slots :
    (a # b /\ IsVerify(a) /\ IsVerify(b) /\ SamePrincipal(a, b) /\ req[a].otp = req[b].otp
       /\ req[a].validToken # 0 /\ req[a].validToken = req[b].validToken)
    => ~(Succeeded(a) /\ Succeeded(b))

-----------------------------------------------------------------------------
(* C4: every token expires 10 minutes after it was issued; a verify-otp only
   ever proceeds to the reset (mark, update, success) on a token that had not
   expired at the time of its token query; and the password tables are only
   written by a verify-otp that holds such a token. *)
OnResetPath(r) == IsVerify(r) /\ (req[r].pc \in {"mark", "update", "log"} \/ Succeeded(r))

C4_Inv ==
  /\ \A t \in TokenIds : otp_tokens[t].expires_at = otp_tokens[t].created_at + 10
  /\ \A r \in Slots :
       OnResetPath(r) => /\ req[r].validToken \in TokenIds
                         /\ otp_tokens[req[r].validToken].expires_at > req[r].queryTime

C4_Step ==
  db' # db => \E r \in Slots : /\ IsVerify(r) /\ req[r].pc = "update"
                               /\ req[r].validToken \in TokenIds
                               /\ otp_tokens[req[r].validToken].expires_at > req[r].queryTime

C4_ExpiredNeverVerifies == []C4_Inv /\ [][C4_Step]_vars

(* A verify-otp with the correct code of an unused token was refused because
   its query ran at or after the token's expiry. *)
C4_Witness ==
  \E r \in Slots :
    /\ IsVerify(r) /\ Done(r) /\ req[r].resp = Resp(400, "OTP expired or invalid")
    /\ \E t \in Matching(r) : ~otp_tokens[t].used /\ otp_tokens[t].expires_at <= req[r].queryTime
    /\ db = InitialDb

-----------------------------------------------------------------------------
(* C10 as stated: once a forgot-password request has answered 503, a verify-otp
   whose token query runs afterwards with that request's code does not succeed. *)
Failed503(r) == IsForgot(r) /\ Done(r) /\ req[r].resp.status = 503

C10_Original ==
  [][\A a, b \in Slots :
       (Failed503(a) /\ SelectStep(b) /\ SamePrincipal(a, b)
          /\ comparePassword(req[b].otp, otp_tokens[req[a].inserted].otp_code_hash))
       => req'[b].validToken = 0]_vars

(* C10 as amended: a failed delivery is answered 503 with the request's own
   token marked used; the request writes no activity entry (an otp_requested
   entry is only ever written after a delivery); and no token query that runs
   afterwards matches that token. *)
C10_Inv ==
  /\ \A r \in Slots :
       Failed503(r) => /\ req[r].inserted \in TokenIds
                       /\ otp_tokens[req[r].inserted].used
  /\ \A role \in {"teacher", "student"} : \A i \in DOMAIN db[TableOf(role)] :
       CopiesIn([user_type |-> role, user_id |-> i, action |-> "otp_requested"], activity_logs)
         <= CopiesIn(db[TableOf(role)][i].email, sent)

C10_Step ==
  /\ \A r \in Slots :
       (IsForgot(r) /\ req[r].pc = "send" /\ req'[r].pc = "rollback")
       => activity_logs' = activity_logs /\ sent' = sent
  /\ \A r \in Slots :
       (IsForgot(r) /\ req[r].pc = "rollback" /\ req'[r].pc # "rollback")
       => /\ activity_logs' = activity_logs
          /\ req'[r].resp = Resp(503, "Failed to send OTP email. Please contact your administrator.")
          /\ otp_tokens'[req[r].inserted].used
  /\ \A a, b \in Slots :
       (Failed503(a) /\ SelectStep(b)) => req'[b].validToken # req[a].inserted

C10_DeliveryFailure == []C10_Inv /\ [][C10_Step]_vars

(* A delivery failed and was answered 503 while the token it had inserted was
   the principal's only token. *)
C10_Witness ==
  \E r \in Slots : Failed503(r) /\ otp_tokens[req[r].inserted].used /\ Len(otp_tokens) = 1

-----------------------------------------------------------------------------
(* C2 as stated (under SpecResubmit, where verify-otp requests never overlap
   and no token is issued after the first of them): no two verify-otp requests
   for the same principal with the same code both succeed. *)
C2_Original ==
  \A a, b \in Slots :
    (a # b /\ IsVerify(a) /\ IsVerify(b) /\ SamePrincipal(a, b) /\ req[a].otp = req[b].otp)
    => ~(Succeeded(a) /\ Succeeded(b))

(* C2 as amended: after a verify-otp has succeeded on a token, no later
   verify-otp succeeds on that token; a later verify-otp with the same code
   fails with an OTP error whenever no other unused, unexpired token of the
   principal carries that code, and a verify-otp that failed has not written
   the password tables. *)
C2_Inv ==
  /\ \A a, b \in Slots :
       (a # b /\ IsVerify(a) /\ IsVerify(b) /\ Succeeded(a) /\ req[b].validToken # 0)
       => req[b].validToken # req[a].validToken
  /\ \A a \in Slots : (IsVerify(a) /\ Succeeded(a)) => otp_tokens[req[a].validToken].used
  /\ \A b \in Slots : (IsVerify(b) /\ Done(b) /\ ~Succeeded(b)) => req[b].validToken = 0

C2_Step ==
  /\ \A b \in Slots :
       (SelectStep(b) /\ \A t \in Matching(b) : otp_tokens[t].used \/ otp_tokens[t].expires_at <= now)
       => req'[b].pc = "done" /\ OtpError(req'[b].resp)
  /\ db' # db => \E r \in Slots : IsVerify(r) /\ req[r].pc = "update" /\ req[r].validToken # 0
  /\ \A t \in TokenIds : otp_tokens[t].used => otp_tokens'[t].used

C2_VerifiedOnce == []C2_Inv /\ [][C2_Step]_vars

(* A verify-otp succeeded and a verify-otp with the same code, for the same
   principal, was then refused with an OTP error: the only token carrying the
   code was the one already consumed. *)
C2_Witness ==
  \E a, b \in Slots :
    /\ a # b /\ IsVerify(a) /\ IsVerify(b) /\ SamePrincipal(a, b) /\ req[a].otp = req[b].otp
    /\ Succeeded(a) /\ Done(b) /\ OtpError(req[b].resp)
    /\ Matching(b) = {req[a].validToken}
    /\ otp_tokens[req[a].validToken].expires_at > req[b].queryTime

-----------------------------------------------------------------------------
(* C3 (under SpecSeqIssue, where forgot-password requests for one identifier do
   not overlap): a request inserts its token only when every earlier token of
   the principal is marked used; at most one unused, unexpired token exists
   per principal; and a verify-otp whose code is carried by an earlier token
   but not by the principal's newest token fails with an OTP error. *)
TokensOf(role, id) ==
  {t \in TokenIds : otp_tokens[t].user_type = role /\ otp_tokens[t].user_id = id}

Newest(ts) == CHOOSE t \in ts : \A u \in ts : u <= t

C3_Inv ==
  \A role \in {"teacher", "student"} : \A id \in DOMAIN db[TableOf(role)] :
    Cardinality({t \in TokensOf(role, id) :
                   ~otp_tokens[t].used /\ otp_tokens[t].expires_at > now}) <= 1

C3_Step ==
  /\ \A r \in Slots :
       (IsForgot(r) /\ req[r].pc = "insert" /\ req'[r].pc = "send")
       => \A t \in TokensOf(req[r].role, req[r].user) : otp_tokens[t].used
  /\ \A b \in Slots :
       (SelectStep(b) /\ Matching(b) # {} /\ Newest(TokensOf(req[b].role, req[b].user)) \notin Matching(b))
       => req'[b].pc = "done" /\ OtpError(req'[b].resp)

C3_NewTokenInvalidatesOld == []C3_Inv /\ [][C3_Step]_vars

(* A second token was issued, and a verify-otp with the first token's code was
   refused while the second token was still unused and unexpired. *)
C3_Witness ==
  \E b \in Slots :
    /\ IsVerify(b) /\ Done(b) /\ req[b].resp = Resp(400, "Invalid OTP")
    /\ Len(otp_tokens) = 2
    /\ Matching(b) = {1}
    /\ ~otp_tokens[2].used /\ otp_tokens[2].expires_at > now

-----------------------------------------------------------------------------
(* C5: a forgot-password request for an identifier with no account and one
   for an identifier with an account, whose e-mail was delivered, get the same
   response. *)
C5_SameAnswer ==
  \A a, b \in Slots :
    (/\ IsForgot(a) /\ IsForgot(b) /\ req[a].role = req[b].role
     /\ Done(a) /\ req[a].resp.status = 200
     /\ maybeSingle(TableOf(req[a].role), req[a].identifier) = ""
     /\ Done(b) /\ req[b].resp.status = 200
     /\ maybeSingle(TableOf(req[b].role), req[b].identifier) # "")
    => req[a].resp = req[b].resp

-----------------------------------------------------------------------------
(* C9: when the only two requests received are forgot-password requests for
   the same principal and both have answered after a delivery, the two tokens
   they inserted are not both marked used. *)
C9_OneOrBothRemain ==
  \A a, b \in Slots :
    (/\ a # b /\ nreq = 2 /\ IsForgot(a) /\ IsForgot(b) /\ SamePrincipal(a, b)
     /\ Succeeded(a) /\ Succeeded(b) /\ req[a].inserted # 0 /\ req[b].inserted # 0)
    => ~(otp_tokens[req[a].inserted].used /\ otp_tokens[req[b].inserted].used)

(* Two overlapping forgot-password requests have both answered and both their
   tokens are unused and unexpired. *)
C9_Witness ==
  \E a, b \in Slots :
    /\ a # b /\ nreq = 2 /\ IsForgot(a) /\ IsForgot(b) /\ SamePrincipal(a, b)
    /\ Succeeded(a) /\ Succeeded(b) /\ req[a].inserted # 0 /\ req[b].inserted # 0
    /\ \A t \in {req[a].inserted, req[b].inserted} :
         ~otp_tokens[t].used /\ otp_tokens[t].expires_at > now

-----------------------------------------------------------------------------
(* C6: for each valid role, a login naming no principal and a login naming a
   principal with a wrong password get the same response, and the step that
   answers either of them leaves every session as it was. *)
IsLogin(r) == req[r].kind = "login"

UnknownLogin(r) ==
  /\ IsLogin(r) /\ Done(r) /\ req[r].role \in {"admin", "teacher", "student"}
  /\ req[r].password # ""
  /\ maybeSingle(TableOf(req[r].role), req[r].identifier) = ""

WrongPasswordLogin(r) ==
  /\ IsLogin(r) /\ Done(r) /\ req[r].role \in {"admin", "teacher", "student"}
  /\ req[r].password # ""
  /\ LET user == maybeSingle(TableOf(req[r].role), req[r].identifier)
     IN user # "" /\ ~comparePassword(req[r].password, db[TableOf(req[r].role)][user].password_hash)

C6_Inv ==
  \A a, b \in Slots :
    (UnknownLogin(a) /\ WrongPasswordLogin(b) /\ req[a].role = req[b].role)
    => req[a].resp = req[b].resp /\ req[a].resp.status = 401

C6_Step ==
  \A r \in Slots :
    (IsLogin(r) /\ req[r].pc = "lookup" /\ req'[r].pc = "done") => sessions' = sessions

C6_NoEnumeration == []C6_Inv /\ [][C6_Step]_vars

(* An admin login naming nobody and an admin login with a wrong password have
   both been answered, and neither client has a session. *)
C6_Witness ==
  \E a, b \in Slots :
    /\ UnknownLogin(a) /\ WrongPasswordLogin(b)
    /\ req[a].role = "admin" /\ req[b].role = "admin"
    /\ req[a].resp = req[b].resp
    /\ sessions[a] = NoSession /\ sessions[b] = NoSession

-----------------------------------------------------------------------------
(* C7: a login request is counted under its network origin in a window that
   starts with the origin's first request and lasts 15 minutes.  A request
   that finds fewer than 10 requests counted in the running window is not
   rate-limited; one that finds 10 or more is answered 429 at once, whatever
   its credentials, without a lookup and without touching any session; a
   request arriving when the window is over starts a new window. *)
Arrives(r, kind) == nreq' = nreq + 1 /\ req'[r] # req[r] /\ req'[r].kind = kind

(* Requests already counted under key in the window running now. *)
Counted(store, key) == IF store[key].hits > 0 /\ now < store[key].resetTime THEN store[key].hits ELSE 0

C7_Step ==
  \A r \in Slots :
    Arrives(r, "login") =>
      LET ip == req'[r].ip
          prior == Counted(loginHits, ip)
      IN /\ loginHits'[ip].hits = prior + 1
         /\ loginHits'[ip].resetTime = IF prior = 0 THEN now + 15 ELSE loginHits[ip].resetTime
         /\ \A k \in LimiterKeys \ {ip} : loginHits'[k] = loginHits[k]
         /\ prior < 10 => req'[r].resp.status # 429
         /\ prior >= 10 =>
              /\ req'[r].pc = "done"
              /\ req'[r].resp = Resp(429, "Too many login attempts. Please try again after 15 minutes.")
              /\ req'[r].user = ""
         /\ sessions' = sessions /\ activity_logs' = activity_logs /\ db' = db

C7_Inv ==
  \A r \in Slots : (IsLogin(r) /\ req[r].resp.status = 429) => Done(r) /\ req[r].user = ""

C7_LoginThrottle == []C7_Inv /\ [][C7_Step]_vars

(* The eleventh request of an origin in one window carried valid credentials
   and was answered 429; the client has no session. *)
C7_Witness ==
  \E r \in Slots :
    /\ IsLogin(r) /\ Done(r) /\ req[r].resp.status = 429
    /\ comparePassword(req[r].password, db["admins"]["a1"].password_hash)
    /\ loginHits[req[r].ip].hits = 11 /\ now < loginHits[req[r].ip].resetTime
    /\ sessions[r] = NoSession

-----------------------------------------------------------------------------
(* C8: a forgot-password request is counted under the identifier it names,
   under its network origin only when it names none, in a window of 60
   minutes.  A request that finds fewer than 5 requests counted under its key
   is not rate-limited; one that finds 5 or more is answered 429 at once: no
   token is inserted or marked and no e-mail is sent. *)
C8_Step ==
  \A r \in Slots :
    Arrives(r, "forgot") =>
      LET key == IF req'[r].identifier # "" THEN req'[r].identifier ELSE req'[r].ip
          prior == Counted(otpHits, key)
      IN /\ otpHits'[key].hits = prior + 1
         /\ otpHits'[key].resetTime = IF prior = 0 THEN now + 60 ELSE otpHits[key].resetTime
         /\ \A k \in LimiterKeys \ {key} : otpHits'[k] = otpHits[k]
         /\ prior < 5 => req'[r].resp.status # 429
         /\ prior >= 5 =>
              /\ req'[r].pc = "done"
              /\ req'[r].resp = Resp(429, "Too many OTP requests. Please try again after an hour.")
         /\ otp_tokens' = otp_tokens /\ sent' = sent /\ activity_logs' = activity_logs

C8_Inv ==
  \A r \in Slots :
    (IsForgot(r) /\ req[r].resp.status = 429) => Done(r) /\ req[r].user = "" /\ req[r].inserted = 0

C8_OtpThrottle == []C8_Inv /\ [][C8_Step]_vars

(* The sixth request naming a known identifier in one window was answered
   429 after five tokens had been issued; every request was counted under the
   identifier and none under a network origin. *)
C8_Witness ==
  \E r \in Slots :
    /\ IsForgot(r) /\ Done(r) /\ req[r].resp.status = 429
    /\ req[r].identifier = "2024001"
    /\ otpHits["2024001"].hits = 6 /\ now < otpHits["2024001"].resetTime
    /\ Len(otp_tokens) = 5 /\ BagCardinality(sent) > 0
    /\ otpHits["10.0.0.1"].hits = 0 /\ otpHits["10.0.0.2"].hits = 0

-----------------------------------------------------------------------------
(* C11: a request of login, change-password, forgot-password or verify-otp
   during which a store lookup, insert or update failed is answered with a
   5xx status. *)
C11_StoreFailureIs5xx ==
  \A r \in Slots : (Done(r) /\ req[r].storeError) => req[r].resp.status >= 500

-----------------------------------------------------------------------------
(* C12: as long as a client's session exists, its role and its principal stay
   what they were when the session was established. *)
C12_RoleImmutable ==
  [][\A r \in Slots :
       (sessions[r] # NoSession /\ sessions'[r] # NoSession)
       => sessions'[r].role = sessions[r].role /\ sessions'[r].id = sessions[r].id]_vars

-----------------------------------------------------------------------------
(* The row of the principal of request r. *)
RowOf(r) == db[TableOf(req[r].role)][req[r].user]

(* The step in which request r of the given kind runs its password update. *)
UpdateStep(r, kind) == req[r].kind = kind /\ req[r].pc = "update" /\ req'[r].pc = "log"

(* The step in which request r of the given kind answers after its log call. *)
AnswerStep(r, kind) == req[r].kind = kind /\ req[r].pc = "log" /\ req'[r].pc = "done"

(* Another request than r writes the password of r's principal in this step. *)
OtherWriter(r) ==
  \E s \in Slots \ {r} :
    /\ UpdateStep(s, "verify") \/ UpdateStep(s, "change")
    /\ req[s].role = req[r].role /\ req[s].user = req[r].user

(* C13 as stated, for a verify-otp that shares its token with no other
   request: at the time it answers with success the matched token is marked
   used, the stored hash verifies its new password and must_change_password
   is false. *)
C13_Original ==
  [][\A r \in Slots :
       (AnswerStep(r, "verify") /\ \A s \in Slots \ {r} : req[s].validToken # req[r].validToken)
       => /\ otp_tokens'[req[r].validToken].used
          /\ comparePassword(req[r].newPassword, RowOf(r)'.password_hash)
          /\ ~RowOf(r)'.must_change_password]_vars

(* C13 as amended: the update of a verify-otp stores a hash that verifies its
   new password and clears must_change_password; until the request answers,
   the row changes only by the password update of another verify-otp or
   change-password for the same principal; the request answers with success
   when the matched token is marked used and the flag is false, and its
   answer step writes the password_reset_via_otp entry; and a login for the
   principal passes its password check exactly when the stored hash verifies
   the password it carries. *)
C13_Inv ==
  \A r \in Slots :
    (IsVerify(r) /\ Succeeded(r)) => req[r].validToken \in TokenIds /\ otp_tokens[req[r].validToken].used

C13_Step ==
  /\ \A r \in Slots :
       UpdateStep(r, "verify")
       => /\ comparePassword(req[r].newPassword, RowOf(r)'.password_hash)
          /\ ~RowOf(r)'.must_change_password
  /\ \A r \in Slots :
       (IsVerify(r) /\ req[r].pc = "log" /\ RowOf(r)' # RowOf(r)) => OtherWriter(r)
  /\ \A r \in Slots :
       AnswerStep(r, "verify")
       => /\ req'[r].resp = Resp(200, "Password reset successfully")
          /\ otp_tokens'[req[r].validToken].used
          /\ ~RowOf(r)'.must_change_password
          /\ activity_logs' = activity_logs (+) SetToBag({[user_type |-> req[r].role,
                user_id |-> req[r].user, action |-> "password_reset_via_otp"]})
  /\ \A r \in Slots :
       (req[r].kind = "login" /\ req[r].pc = "lookup" /\ req'[r].pc # "lookup")
       => (req'[r].pc = "log"
             <=> comparePassword(req[r].password, db["students"]["s1"].password_hash))

C13_ResetTakesEffect == []C13_Inv /\ [][C13_Step]_vars

(* A verify-otp succeeded with a new password, the stored hash verifies it,
   and a following login with that password succeeded: the client's session
   shows no pending password change. *)
C13_Witness ==
  \E a, b \in Slots :
    /\ IsVerify(a) /\ Succeeded(a)
    /\ comparePassword(req[a].newPassword, db["students"]["s1"].password_hash)
    /\ ~db["students"]["s1"].must_change_password
    /\ req[b].kind = "login" /\ Succeeded(b) /\ req[b].password = req[a].newPassword
    /\ sessions[b].id = "s1" /\ ~sessions[b].mustChangePassword

-----------------------------------------------------------------------------
(* The principal of request r has a row. *)
HasRow(r) == req[r].user \in DOMAIN db[TableOf(req[r].role)]

(* Another request than r deletes the row of r's principal in this step. *)
OtherDeleter(r) ==
  \E s \in Slots \ {r} :
    /\ req[s].kind = "delete" /\ req[s].pc = "delete" /\ req'[s].pc = "log"
    /\ req[r].role = "teacher" /\ req[s].identifier = req[r].user

(* C14 as stated, for a principal whose row exists: at the time a
   change-password answers with success the stored hash of the session's
   principal verifies the new password, its must_change_password is false
   and the session shows no pending change. *)
C14_Original ==
  [][\A r \in Slots :
       (AnswerStep(r, "change") /\ HasRow(r)')
       => /\ comparePassword(req[r].newPassword, RowOf(r)'.password_hash)
          /\ ~RowOf(r)'.must_change_password
          /\ ~sessions'[r].mustChangePassword]_vars

(* C14 as amended: the update of a change-password stores, in the row of the
   session's principal when it exists, a hash that verifies the new password
   and a false must_change_password, and clears the flag of the caller's
   session; until the request answers, the row changes only by the password
   update of another request for the same principal or by its deletion; the
   request answers with success and writes the password_changed entry; and
   the session read that follows on the same session, with no login in
   between, shows the same principal with mustChangePassword = false. *)
C14_Inv ==
  \A r \in Slots :
    (req[r].kind = "change" /\ Succeeded(r))
    => sessions[r].id = req[r].user /\ ~sessions[r].mustChangePassword

C14_Step ==
  /\ \A r \in Slots :
       UpdateStep(r, "change")
       => /\ ~sessions'[r].mustChangePassword
          /\ HasRow(r) => /\ HasRow(r)'
                          /\ comparePassword(req[r].newPassword, RowOf(r)'.password_hash)
                          /\ ~RowOf(r)'.must_change_password
  /\ \A r \in Slots :
       (req[r].kind = "change" /\ req[r].pc = "log" /\ HasRow(r)
          /\ (~HasRow(r)' \/ RowOf(r)' # RowOf(r)))
       => OtherWriter(r) \/ OtherDeleter(r)
  /\ \A r \in Slots :
       AnswerStep(r, "change")
       => /\ req'[r].resp = Resp(200, "Password changed successfully")
          /\ ~sessions'[r].mustChangePassword
          /\ HasRow(r)' => ~RowOf(r)'.must_change_password
          /\ activity_logs' = activity_logs (+) SetToBag({[user_type |-> req[r].role,
                user_id |-> req[r].user, action |-> "password_changed"]})
  /\ \A r \in Slots :
       (req[r].kind = "change" /\ Succeeded(r) /\ req'[r].kind = "session")
       => /\ req'[r].resp.status = 200
          /\ req'[r].body.id = req[r].user
          /\ ~req'[r].body.mustChangePassword

C14_ChangeTakesEffect == []C14_Inv /\ [][C14_Step]_vars

(* The student logged in once, with a pending password change, changed the
   password, and the session read that followed shows no pending change; the
   stored hash verifies the new password. *)
C14_Witness ==
  \E r \in Slots :
    /\ req[r].kind = "session" /\ req[r].resp.status = 200
    /\ req[r].body.id = "s1" /\ ~req[r].body.mustChangePassword
    /\ CopiesIn([user_type |-> "student", user_id |-> "s1", action |-> "login"], activity_logs) = 1
    /\ CopiesIn([user_type |-> "student", user_id |-> "s1", action |-> "password_changed"],
                activity_logs) = 1
    /\ comparePassword("NewPass1!", db["students"]["s1"].password_hash)
    /\ ~db["students"]["s1"].must_change_password

-----------------------------------------------------------------------------
(* C15: a change-password request is rejected by its first step (no session:
   401; a missing field: 400; a new password shorter than 8 characters: 400)
   or by its lookup step (no row for the session's principal: 404; the
   current password not verified by the stored hash: 401), and both steps
   leave every stored row, its hash and flag included, and every session as
   they were.  A request that is not rejected there goes on to its update. *)
Rejected(q) == q.kind = "change" /\ q.pc = "done" /\ q.resp.status # 200

C15_Step ==
  /\ \A r \in Slots :
       Arrives(r, "change")
       => /\ db' = db /\ sessions' = sessions
          /\ Rejected(req'[r])
               <=> \/ sessions[r] = NoSession
                   \/ req'[r].password = "" \/ req'[r].newPassword = ""
                   \/ Len(req'[r].newPassword) < 8
          /\ sessions[r] = NoSession => req'[r].resp = Resp(401, "Unauthorized")
          /\ Rejected(req'[r]) => req'[r].resp.status \in {400, 401}
  /\ \A r \in Slots :
       (req[r].kind = "change" /\ req[r].pc = "lookup" /\ req'[r].pc # "lookup")
       => /\ db' = db /\ sessions' = sessions
          /\ ~HasRow(r) => req'[r].resp = Resp(404, "User not found")
          /\ (HasRow(r) /\ ~comparePassword(req[r].password, RowOf(r).password_hash))
               => req'[r].resp = Resp(401, "Current password is incorrect")
          /\ (HasRow(r) /\ comparePassword(req[r].password, RowOf(r).password_hash))
               => req'[r].pc = "update"
  /\ \A r \in Slots :
       (req'[r] # req[r] /\ Rejected(req'[r]))
       => Arrives(r, "change") \/ (req[r].kind = "change" /\ req[r].pc = "lookup")

C15_RejectedChangesNothing == [][C15_Step]_vars

(* A student whose session shows a pending password change sent a wrong
   current password: the request was answered 401 and the row, the flag and
   the session are what the login left. *)
C15_Witness ==
  \E r \in Slots :
    /\ Rejected(req[r]) /\ req[r].resp = Resp(401, "Current password is incorrect")
    /\ req[r].newPassword = "NewPass1!"
    /\ sessions[r].id = "s1" /\ sessions[r].mustChangePassword
    /\ db = InitialDb

-----------------------------------------------------------------------------
(* C16: a forgot-password or verify-otp request with role admin is answered
   at once with a validation error (400), or 429 by the limiter in front of
   it; no token row has user_type admin; and the admins table is what it was
   at the start, whatever recovery requests were made. *)
C16_Inv ==
  /\ \A r \in Slots :
       ((IsForgot(r) \/ IsVerify(r)) /\ req[r].role = "admin")
       => Done(r) /\ req[r].resp.status \in {400, 429} /\ req[r].user = ""
  /\ \A t \in TokenIds : otp_tokens[t].user_type # "admin"
  /\ db["admins"] = InitialDb["admins"]

C16_Step ==
  \A r \in Slots :
    ((Arrives(r, "forgot") \/ Arrives(r, "verify")) /\ req'[r].role = "admin")
    => UNCHANGED <<db, otp_tokens, sent, activity_logs>>

C16_NoAdminRecovery == []C16_Inv /\ [][C16_Step]_vars

(* A forgot-password and a verify-otp naming the administrator under role
   admin were both refused, while a token was issued to the teacher. *)
C16_Witness ==
  \E a, b \in Slots :
    /\ IsForgot(a) /\ req[a].role = "admin" /\ req[a].identifier = "admin"
    /\ req[a].resp = Resp(400, "Password reset not available for admin accounts")
    /\ IsVerify(b) /\ req[b].role = "admin" /\ req[b].identifier = "admin"
    /\ req[b].resp = Resp(400, "Password reset not available for admin accounts")
    /\ \E t \in TokenIds : otp_tokens[t].user_type = "teacher"

-----------------------------------------------------------------------------
(* C17: every step of a forgot-password request whose identifier matches no
   principal of its role leaves the token rows, the e-mails sent, the
   activity log and the principals' rows as they were; the request is
   answered by its lookup step, with the generic message. *)
NamesNobody(q) ==
  /\ q.kind = "forgot" /\ q.role \in {"teacher", "student"} /\ q.identifier # ""
  /\ maybeSingle(TableOf(q.role), q.identifier) = ""

C17_Inv ==
  \A r \in Slots :
    (NamesNobody(req[r]) /\ req[r].resp.status # 429)
    => /\ req[r].pc \in {"lookup", "done"} /\ req[r].user = "" /\ req[r].inserted = 0
       /\ Done(r) => req[r].resp =
            Resp(200, "If the account exists, an OTP has been sent to the registered email")

C17_Step ==
  \A r \in Slots :
    (req'[r] # req[r] /\ NamesNobody(req'[r]))
    => UNCHANGED <<otp_tokens, sent, activity_logs, db>>

C17_UnknownChangesNothing == []C17_Inv /\ [][C17_Step]_vars

(* A request naming nobody was answered while the token issued to the student
   by another request is still unused, one e-mail has been sent and one entry
   logged. *)
C17_Witness ==
  \E a, b \in Slots :
    /\ NamesNobody(req[a]) /\ Done(a) /\ req[a].resp.status = 200
    /\ IsForgot(b) /\ Succeeded(b) /\ req[b].identifier = "2024001"
    /\ Len(otp_tokens) = 1 /\ ~otp_tokens[1].used
    /\ BagCardinality(sent) = 1 /\ BagCardinality(activity_logs) = 1

-----------------------------------------------------------------------------
(* C18: the step in which login, change-password, forgot-password or
   verify-otp answers after its logActivity call gives the same answer, and
   leaves the same sessions, rows and tokens, whether the entry was written
   or the write failed; the entry is the only difference. *)
C18_Step ==
  \A r \in Slots :
    (req[r].kind \in {"login", "change", "forgot", "verify"} /\ req[r].pc = "log"
       /\ req'[r] # req[r])
    => /\ req'[r] = Reply(r, AfterLog(req[r].kind).status, AfterLog(req[r].kind).text)[r]
       /\ UNCHANGED <<db, otp_tokens, sessions, sent>>
       /\ \/ activity_logs' = activity_logs
          \/ BagCardinality(activity_logs') = BagCardinality(activity_logs) + 1

C18_LogFailureIsSwallowed == [][C18_Step]_vars

(* A login succeeded and established the session although its log entry was
   not written. *)
C18_Witness ==
  \E r \in Slots :
    /\ IsLogin(r) /\ Succeeded(r) /\ ~req[r].storeError
    /\ sessions[r].id = "s1"
    /\ activity_logs = EmptyBag

-----------------------------------------------------------------------------
(* C19: in every step each existing token row stays, with the id, owner,
   hash and expiry it had; a used row stays used; and rows are only added. *)
C19_Step ==
  /\ Len(otp_tokens') >= Len(otp_tokens)
  /\ \A t \in TokenIds :
       /\ otp_tokens'[t].id = otp_tokens[t].id
       /\ otp_tokens'[t].user_type = otp_tokens[t].user_type
       /\ otp_tokens'[t].user_id = otp_tokens[t].user_id
       /\ otp_tokens'[t].otp_code_hash = otp_tokens[t].otp_code_hash
       /\ otp_tokens'[t].expires_at = otp_tokens[t].expires_at
       /\ otp_tokens[t].used => otp_tokens'[t].used

C19_TokensAreKept == [][C19_Step]_vars

(* Three tokens were issued: the first was rolled back after a failed
   delivery and the second was marked used since; all three rows are still
   there, the first two used, the third unused. *)
C19_Witness ==
  /\ Len(otp_tokens) = 3
  /\ otp_tokens[1].used /\ otp_tokens[2].used /\ ~otp_tokens[3].used
  /\ \E r \in Slots : Failed503(r) /\ req[r].inserted = 1

-----------------------------------------------------------------------------
(* C20: the string generatePassword returns has exactly the length asked
   for, 8 when no length was given, and holds at least one uppercase letter,
   one lowercase letter, one digit and one of the symbols @#$!. *)
Chars(s) == {s[i] : i \in 1..Len(s)}

C20_PasswordShape ==
  gen.pc = "done"
  => /\ Len(gen.password) = (IF gen.args = <<>> THEN 8 ELSE gen.args[1])
     /\ Chars(gen.password) \cap Chars(uppercase) # {}
     /\ Chars(gen.password) \cap Chars(lowercase) # {}
     /\ Chars(gen.password) \cap Chars(numbers) # {}
     /\ Chars(gen.password) \cap {"@", "#", "$", "!"} # {}

(* A password of 9 characters was returned whose first character is a symbol
   and whose only symbol it is: the shuffle moved it there. *)
C20_Witness ==
  /\ gen.pc = "done" /\ gen.args = <<9>> /\ Len(gen.password) = 9
  /\ gen.password[1] \in {"@", "#", "$", "!"}
  /\ \A i \in 2..9 : gen.password[i] \notin {"@", "#", "$", "!"}

-----------------------------------------------------------------------------
(* C21: the string generateOTP returns has exactly 6 characters, each a
   decimal digit, and read as a decimal number it lies in 100000..999999. *)
C21_OtpShape ==
  gen.pc = "otp"
  => /\ Len(gen.password) = 6
     /\ \A i \in 1..Len(gen.password) :
          gen.password[i] \in {"0", "1", "2", "3", "4", "5", "6", "7", "8", "9"}
     /\ parseInt(gen.password) >= 100000
     /\ parseInt(gen.password) <= 999999

(* The greatest value of Math.random() gave the code 999999. *)
C21_Witness ==
  gen.pc = "otp" /\ gen.password = <<"9", "9", "9", "9", "9", "9">>

-----------------------------------------------------------------------------
(* C22: the token query of a verify-otp for an existing principal sends the
   request on to the reset exactly when, at the time of the query, some
   unused, unexpired token of the principal carries the supplied code, and
   otherwise answers with an OTP error; the token it holds then is the most
   recently created of those; the mark step sets the used flag of that token
   and changes nothing else in the table; no other step of the request
   changes a token row; and a request is answered with success exactly when
   it held a token. *)
LiveMatching(r) ==
  {t \in Matching(r) : ~otp_tokens[t].used /\ otp_tokens[t].expires_at > now}

C22_Inv ==
  \A r \in Slots :
    (IsVerify(r) /\ Done(r))
    => /\ Succeeded(r) <=> req[r].validToken # 0
       /\ Succeeded(r) => otp_tokens[req[r].validToken].used

C22_Step ==
  /\ \A r \in Slots :
       SelectStep(r)
       => /\ req'[r].pc = "mark" <=> LiveMatching(r) # {}
          /\ LiveMatching(r) # {}
               => /\ req'[r].validToken \in LiveMatching(r)
                  /\ \A t \in LiveMatching(r) : t <= req'[r].validToken
          /\ LiveMatching(r) = {} => req'[r].pc = "done" /\ OtpError(req'[r].resp)
          /\ otp_tokens' = otp_tokens
  /\ \A r \in Slots :
       (IsVerify(r) /\ req[r].pc = "mark" /\ req'[r].pc # "mark")
       => /\ otp_tokens'[req[r].validToken].used
          /\ Len(otp_tokens') = Len(otp_tokens)
          /\ \A t \in TokenIds \ {req[r].validToken} : otp_tokens'[t] = otp_tokens[t]
  /\ \A r \in Slots :
       (req'[r] # req[r] /\ req'[r].kind = "verify" /\ req[r].pc # "mark")
       => otp_tokens' = otp_tokens

C22_NewestMatchConsumed == []C22_Inv /\ [][C22_Step]_vars

(* Two tokens of the student carried the supplied code and were both unused
   when the verify-otp ran: it succeeded, the later one is used and the
   earlier one is still unused and unexpired. *)
C22_Witness ==
  \E r \in Slots :
    /\ IsVerify(r) /\ Succeeded(r) /\ req[r].validToken = 2
    /\ Matching(r) = {1, 2}
    /\ otp_tokens[2].used
    /\ ~otp_tokens[1].used /\ otp_tokens[1].expires_at > now

-----------------------------------------------------------------------------
(* C23: a verify-otp is rejected by its first step (a missing field, a new
   password shorter than 8 characters, role admin or an unknown role: 400),
   by its lookup step (no principal of that role: 400) or by its token query
   (no unused, unexpired token, or none that carries the code: 400); these
   three steps leave the token rows, the principals' rows, the activity log
   and the sessions as they were, and no later step rejects. *)
RejectedVerify(q) == q.kind = "verify" /\ q.pc = "done" /\ q.resp.status # 200

C23_Step ==
  /\ \A r \in Slots :
       Arrives(r, "verify")
       => /\ UNCHANGED <<otp_tokens, db, activity_logs, sessions, sent>>
          /\ (\/ req'[r].otp = "" \/ Len(req'[r].newPassword) < 8
              \/ req'[r].role \notin {"teacher", "student"})
               => RejectedVerify(req'[r]) /\ req'[r].resp.status \in {400, 429}
  /\ \A r \in Slots :
       (IsVerify(r) /\ req[r].pc = "lookup" /\ req'[r].pc # "lookup")
       => /\ UNCHANGED <<otp_tokens, db, activity_logs, sessions, sent>>
          /\ maybeSingle(TableOf(req[r].role), req[r].identifier) = ""
               => req'[r].resp = Resp(400, "Invalid credentials")
  /\ \A r \in Slots :
       SelectStep(r)
       => /\ UNCHANGED <<otp_tokens, db, activity_logs, sessions, sent>>
          /\ LiveTokens(req[r].role, req[r].user, now) = {}
               => req'[r].resp = Resp(400, "OTP expired or invalid")
          /\ (LiveTokens(req[r].role, req[r].user, now) # {} /\ LiveMatching(r) = {})
               => req'[r].resp = Resp(400, "Invalid OTP")
  /\ \A r \in Slots :
       (req'[r] # req[r] /\ RejectedVerify(req'[r]))
       => Arrives(r, "verify") \/ (IsVerify(r) /\ req[r].pc \in {"lookup", "select"})

C23_RejectedVerifyChangesNothing == [][C23_Step]_vars

(* A verify-otp with a wrong code was refused while the teacher's token was
   unused and unexpired: the token is still so, the rows are the seeded ones
   and the only activity entry is the one of the token's issuance. *)
C23_Witness ==
  \E r \in Slots :
    /\ RejectedVerify(req[r]) /\ req[r].resp = Resp(400, "Invalid OTP")
    /\ Len(otp_tokens) = 1 /\ otp_tokens[1].user_id = "t1"
    /\ ~otp_tokens[1].used /\ otp_tokens[1].expires_at > now
    /\ ~comparePassword(req[r].otp, otp_tokens[1].otp_code_hash)
    /\ db = InitialDb
    /\ BagCardinality(activity_logs) = 1

-----------------------------------------------------------------------------
(* C24: a session user for a principal comes into being only in the lookup
   step of a login whose role is admin, teacher or student, whose identifier
   names that principal in the table of that role, and whose password
   verifies against the hash that row holds at that step; the session user
   then carries that role and that principal.  No step of a login that is
   answered 400, 401 or 429 changes any session. *)
Refused(q) == q.kind = "login" /\ q.pc = "done" /\ q.resp.status \in {400, 401, 429}

NewSessionUser(r) ==
  /\ sessions'[r] # NoSession
  /\ \/ sessions[r] = NoSession
     \/ sessions'[r].id # sessions[r].id
     \/ sessions'[r].role # sessions[r].role
     \/ sessions'[r].username # sessions[r].username

C24_Step ==
  /\ \A r \in Slots :
       NewSessionUser(r)
       => /\ IsLogin(r) /\ req[r].pc = "lookup"
          /\ req[r].role \in {"admin", "teacher", "student"}
          /\ LET user == maybeSingle(TableOf(req[r].role), req[r].identifier)
             IN /\ user # ""
                /\ comparePassword(req[r].password, db[TableOf(req[r].role)][user].password_hash)
                /\ sessions'[r].id = user
                /\ sessions'[r].role = req[r].role
                /\ sessions'[r].username = req[r].identifier
          /\ \A s \in Slots \ {r} : sessions'[s] = sessions[s]
  /\ \A r \in Slots :
       (req'[r] # req[r] /\ Refused(req'[r])) => sessions' = sessions

C24_Inv ==
  \A r \in Slots :
    (IsLogin(r) /\ Done(r))
    => (Succeeded(r) <=> req[r].resp.status \notin {400, 401, 429})

C24_SessionOnlyByLogin == []C24_Inv /\ [][C24_Step]_vars

(* After the student's password was changed, a login with the new password
   has created a session in one client while a login with the old one, and a
   login over the quota, were refused. *)
C24_Witness ==
  \E r, s \in Slots :
    /\ r # s
    /\ IsLogin(r) /\ Succeeded(r) /\ req[r].password = "NewPass1!"
    /\ sessions[r] # NoSession /\ sessions[r].id = "s1"
    /\ Refused(req[s]) /\ req[s].resp.status = 429
    /\ sessions[s] = NoSession

-----------------------------------------------------------------------------
(* C25: a request to a protected router enters its handler exactly when the
   session of the request holds a user whose role is the role of the router;
   with no session user it is answered 401 and with another role 403, and in
   both cases the handler does not run.  The answer of the middleware is the
   same whatever mustChangePassword is. *)
IsProtected(r) == req[r].kind = "protected"

C25_Step ==
  /\ \A r \in Slots :
       Arrives(r, "protected")
       => /\ sessions[r] = NoSession
               => req'[r].pc = "done" /\ req'[r].resp = Resp(401, "Unauthorized - Please login")
          /\ (sessions[r] # NoSession /\ sessions[r].role # req'[r].identifier)
               => /\ req'[r].pc = "done"
                  /\ req'[r].resp = Resp(403, "Forbidden - Insufficient permissions")
          /\ (sessions[r] # NoSession /\ sessions[r].role = req'[r].identifier)
               => req'[r].pc = "handler"
          /\ sessions[r] # NoSession
               => requireRole(RequiredRoles(req'[r].identifier),
                              [sessions[r] EXCEPT !.mustChangePassword = ~@])
                    = requireRole(RequiredRoles(req'[r].identifier), sessions[r])
  /\ \A r \in Slots :
       (IsProtected(r) /\ req'[r] # req[r] /\ req'[r].kind = "protected"
          /\ req'[r].resp = Resp(200, "handled"))
       => req[r].pc = "handler"

C25_Inv ==
  \A r \in Slots :
    (IsProtected(r) /\ (req[r].pc = "handler" \/ req[r].resp.status = 200))
    => /\ sessions[r] # NoSession
       /\ sessions[r].role = req[r].identifier

C25_RoleGuard == []C25_Inv /\ [][C25_Step]_vars

(* The student, whose session still says mustChangePassword, was served by
   the student router, while in the other client the teacher was refused by
   the admin router with 403. *)
C25_Witness ==
  \E r, s \in Slots :
    /\ IsProtected(r) /\ req[r].identifier = "student" /\ req[r].resp = Resp(200, "handled")
    /\ sessions[r] # NoSession /\ sessions[r].role = "student" /\ sessions[r].mustChangePassword
    /\ IsProtected(s) /\ req[s].identifier = "admin" /\ req[s].resp.status = 403
    /\ sessions[s] # NoSession /\ sessions[s].role = "teacher"

-----------------------------------------------------------------------------
(* C26: forgot-password and verify-otp requests are counted in one store
   under the identifier they name, in a window of 60 minutes.  Of either
   kind, a request that finds fewer than 5 requests of both kinds counted
   under its key is not rate-limited, and one that finds 5 or more is
   answered 429 at once and changes nothing, whether or not it is a
   verify-otp carrying the code of an unused, unexpired token. *)
C26_Step ==
  \A r \in Slots :
    (Arrives(r, "forgot") \/ Arrives(r, "verify")) =>
      LET key == IF req'[r].identifier # "" THEN req'[r].identifier ELSE req'[r].ip
          prior == Counted(otpHits, key)
      IN /\ otpHits'[key].hits = prior + 1
         /\ otpHits'[key].resetTime = IF prior = 0 THEN now + 60 ELSE otpHits[key].resetTime
         /\ prior < 5 => req'[r].resp.status # 429
         /\ prior >= 5 =>
              /\ req'[r].pc = "done"
              /\ req'[r].resp = Resp(429, "Too many OTP requests. Please try again after an hour.")
         /\ UNCHANGED <<otp_tokens, db, sent, activity_logs>>

C26_Inv ==
  \A r \in Slots :
    ((IsForgot(r) \/ IsVerify(r)) /\ req[r].resp.status = 429)
    => Done(r) /\ req[r].user = "" /\ req[r].validToken = 0

C26_SharedQuota == []C26_Inv /\ [][C26_Step]_vars

(* The sixth request of the window naming the student is a verify-otp that
   carries the code of the student's unused, unexpired token, after requests
   of both kinds; it was answered 429 and the password is the seeded one. *)
C26_Witness ==
  /\ IsVerify(Client) /\ req[Client].resp.status = 429
  /\ Counted(otpHits, "2024001") = 6
  /\ BagCardinality(sent) \in 1..4
  /\ \E t \in TokenIds :
       /\ otp_tokens[t].user_id = "s1" /\ ~otp_tokens[t].used /\ otp_tokens[t].expires_at > now
       /\ comparePassword(req[Client].otp, otp_tokens[t].otp_code_hash)
  /\ db = InitialDb

-----------------------------------------------------------------------------
(* C27: the rollback step of a forgot-password request whose delivery failed
   leaves as it was the used flag of the token that another forgot-password
   request for the same principal has inserted and delivered. *)
Delivered(r) == IsForgot(r) /\ req[r].inserted # 0 /\ (req[r].pc = "log" \/ Succeeded(r))

RollbackStep(r) == IsForgot(r) /\ req[r].pc = "rollback" /\ req'[r].pc # "rollback"

C27_RollbackOwnTokenOnly ==
  [][\A a, b \in Slots :
       (RollbackStep(a) /\ a # b /\ Delivered(b) /\ SamePrincipal(a, b))
       => otp_tokens'[req[b].inserted].used = otp_tokens[req[b].inserted].used]_vars

-----------------------------------------------------------------------------
(* C28: a verify-otp whose matched token is already marked used when its
   mark-used step runs, a forgot-password for the same principal having
   marked it since the token query, stops there: it does not go on to the
   password update and does not answer with success. *)
MarkStep(r) == IsVerify(r) /\ req[r].pc = "mark" /\ req'[r].pc # "mark"

SupersededBy(a, b) ==
  /\ IsForgot(a) /\ SamePrincipal(a, b)
  /\ req[a].pc \in {"insert", "send", "log", "rollback", "done"}
  /\ req[a].user # ""
  /\ otp_tokens[req[b].validToken].used

C28_NoResetOnUsedToken ==
  [][\A a, b \in Slots :
       (MarkStep(b) /\ a # b /\ SupersededBy(a, b))
       => /\ req'[b].pc = "done" /\ req'[b].resp.status # 200
          /\ db' = db]_vars

-----------------------------------------------------------------------------
(* C29: no step of a verify-otp request changes any session.  A step of a
   change-password request leaves every session but the caller's as it was,
   and changes in the caller's session user nothing but mustChangePassword,
   which it sets to false. *)
StepOf(r, kind) == req'[r] # req[r] /\ req'[r].kind = kind

C29_Step ==
  /\ \A r \in Slots : StepOf(r, "verify") => sessions' = sessions
  /\ \A r \in Slots :
       StepOf(r, "change")
       => /\ \A s \in Slots \ {r} : sessions'[s] = sessions[s]
          /\ \/ sessions'[r] = sessions[r]
             \/ /\ sessions[r] # NoSession
                /\ sessions'[r] = [sessions[r] EXCEPT !.mustChangePassword = FALSE]

C29_SessionsStay == [][C29_Step]_vars

(* The student is logged in in both clients; one has changed the password
   and its session says so, the other session still holds the student with
   mustChangePassword as it was at its login, while the row's flag is
   cleared. *)
C29_Witness ==
  \E r, s \in Slots :
    /\ r # s
    /\ req[r].kind = "change" /\ Succeeded(r)
    /\ sessions[r] # NoSession /\ ~sessions[r].mustChangePassword
    /\ sessions[s] # NoSession /\ sessions[s].id = sessions[r].id
    /\ sessions[s].role = "student" /\ sessions[s].mustChangePassword
    /\ ~db["students"][sessions[s].id].must_change_password

-----------------------------------------------------------------------------
(* C30: one step of POST /students/generate inserts at most 500 rows, and a
   request whose range startNum..endNum holds more than 500 IDs gets no
   further than its validation: it is answered 400 'Cannot generate more than
   500 students at once'. *)
RangeSize(q) == q.endNum - q.startNum + 1

C30_AtMost500 ==
  [][/\ Cardinality(generated' \ generated) <= 500
     /\ \A r \in Slots :
          (Arrives(r, "generate") /\ RangeSize(req'[r]) > 500)
          => /\ req'[r].pc = "done"
             /\ req'[r].resp = Resp(400, "Cannot generate more than 500 students at once")]_vars

====
